---------------------------- MODULE Spec2Model ----------------------------
(***************************************************************************)
(* Model of the anomaly-detection module "limpieza y  modelado/anomalias.py" *)
(* of WomenIA-hackathon-2026: the batch scoring pass over df_global, the   *)
(* single-event evaluator detectar_anomalia_evento and the formatter       *)
(* respuesta_chatbot.                                                      *)
(*                                                                         *)
(* Numbers.  The code works on float64.  The model computes the same       *)
(* expressions exactly over the rationals, plus the one non-real float the *)
(* code can produce, NaN, with IEEE semantics: every comparison with NaN   *)
(* is false and every arithmetic operation on NaN gives NaN.  Rounding     *)
(* error of float64 is not modelled.                                       *)
(*                                                                         *)
(* Strings.  The literals of the code are written without their accents    *)
(* and subscripts ('Critica' for 'Crítica', 'CO2' for 'CO₂').              *)
(***************************************************************************)
EXTENDS Integers, Sequences, FiniteSets, TLC

-----------------------------------------------------------------------------
(* Program constants.                                                      *)

EpsInv == 1000000            \* 1 / 1e-6, the guard added to the IQR
MinContexto == 50            \* minimum rows of the same hour (event path)
PesoConsumo == 40            \* 0.4  * consumo_kwh_z
PesoAgua == 35               \* 0.35 * agua_litros_z
PesoCO2 == 25                \* 0.25 * co2_kg_z
UmbralZ == 3                 \* a z-score above 3 names a cause

\* The analysed columns, in the order of the dict `variables`.
variables == <<"consumo_kwh", "agua_litros", "co2_kg">>

-----------------------------------------------------------------------------
(* Exact numbers.                                                          *)
(*                                                                         *)
(* Signal values of the table are integers, so four times a median or a    *)
(* quartile is an integer.  With a = 4 * |valor - mediana| and             *)
(* q = 4 * iqr, a z-score is                                               *)
(*     |valor - mediana| / (iqr + 1e-6) = a * EpsInv / (q * EpsInv + 4),   *)
(* held as Z(a, q).  A weighted score of the three z-scores of one hour    *)
(* context is held as Lin(c, q), which stands for                          *)
(*     SUM_i  c[i] * EpsInv / (100 * (q[i] * EpsInv + 4)),                 *)
(* c[i] being the weight in hundredths times a of signal i.                *)

NaN == [t |-> "nan"]
EsNaN(x) == x.t = "nan"

Z(a, q) == [t |-> "z", a |-> a, q |-> q]
Lin(c, q) == [t |-> "lin", c |-> c, q |-> q]

Abs(x) == IF x < 0 THEN -x ELSE x

\* z > k for an integer k, as float64 compares (false on NaN).
\* a * EpsInv > k * (q * EpsInv + 4), that is (a - k * q) * EpsInv > 4 * k,
\* written so that no product leaves the machine integers.
ZMayor(z, k) ==
    /\ ~EsNaN(z)
    /\ LET d == z.a - k * z.q
       IN  d > 0 /\ (4 * k < EpsInv \/ d * EpsInv > 4 * k)

ZEsCero(z) == ~EsNaN(z) /\ z.a = 0

\* The sign (-1, 0, 1) of p[1] + p[2] * EpsInv + p[3] * EpsInv^2 for
\* integers p[i]: carries are propagated upward, which leaves the two low
\* digits in 0 .. EpsInv - 1, so the top digit decides unless it is 0.
SignoPoli(p) ==
    LET r0 == p[1] % EpsInv
        p1 == p[2] + (p[1] \div EpsInv)
        r1 == p1 % EpsInv
        p2 == p[3] + (p1 \div EpsInv)
    IN  IF p2 > 0 THEN 1
        ELSE IF p2 < 0 THEN -1
        ELSE IF r1 > 0 \/ r0 > 0 THEN 1
        ELSE 0

\* The sign of x - y for two scores of the same hour context (x.q = y.q):
\* with D[i] = q[i] * EpsInv + 4 and d = x.c - y.c it is the sign of
\*   d[1] * D[2] * D[3] + d[2] * D[1] * D[3] + d[3] * D[1] * D[2],
\* written out as a polynomial in EpsInv.
SignoDifMismoContexto(x, y) ==
    LET q == x.q
        d == [i \in 1..3 |-> x.c[i] - y.c[i]]
    IN  SignoPoli(<<16 * (d[1] + d[2] + d[3]),
                    4 * (d[1] * (q[2] + q[3]) + d[2] * (q[1] + q[3]) + d[3] * (q[1] + q[2])),
                    d[1] * q[2] * q[3] + d[2] * q[1] * q[3] + d[3] * q[1] * q[2]>>)

\* Polynomials in EpsInv as sequences of integer coefficients, lowest first.
PoliMas(p, r) ==
    [k \in 1..(IF Len(p) > Len(r) THEN Len(p) ELSE Len(r)) |->
        (IF k <= Len(p) THEN p[k] ELSE 0) + (IF k <= Len(r) THEN r[k] ELSE 0)]

PoliNeg(p) == [k \in 1..Len(p) |-> -p[k]]

\* p * (q * EpsInv + 4)
PoliPorD(p, q) ==
    [k \in 1..(Len(p) + 1) |->
        (IF k <= Len(p) THEN 4 * p[k] ELSE 0) + (IF k > 1 THEN q * p[k - 1] ELSE 0)]

\* The sign of a polynomial of any degree, by the carries of SignoPoli.
RECURSIVE SignoPoliN(_, _, _)
SignoPoliN(p, k, resto) ==
    IF k = Len(p)
    THEN IF p[k] > 0 THEN 1
         ELSE IF p[k] < 0 THEN -1
         ELSE IF resto THEN 1 ELSE 0
    ELSE SignoPoliN([p EXCEPT ![k + 1] = p[k + 1] + (p[k] \div EpsInv)],
                    k + 1, resto \/ (p[k] % EpsInv) > 0)

\* The numerator of a score over the common denominator D[1] * D[2] * D[3].
Numerador(x) ==
    LET uno(i, j, k) == PoliPorD(PoliPorD(<<x.c[i]>>, x.q[j]), x.q[k])
    IN  PoliMas(uno(1, 2, 3), PoliMas(uno(2, 1, 3), uno(3, 1, 2)))

Denominador(x) == PoliPorD(PoliPorD(PoliPorD(<<1>>, x.q[1]), x.q[2]), x.q[3])

\* p * r
RECURSIVE PoliPor(_, _)
PoliPor(p, r) ==
    IF Len(r) = 0 THEN <<0>>
    ELSE PoliMas([k \in 1..Len(p) |-> r[1] * p[k]],
                 <<0>> \o PoliPor(p, Tail(r)))

\* The sign of x - y for scores of any two hour contexts: the denominators
\* are positive, so it is the sign of the cross product.
SignoDifGeneral(x, y) ==
    SignoPoliN(PoliMas(PoliPor(Numerador(x), Denominador(y)),
                       PoliNeg(PoliPor(Numerador(y), Denominador(x)))),
               1, FALSE)

\* Integers of any size, for scores of readings in real units (thousands of
\* kWh and litres): digits in base Base, lowest first.  After Llevar every
\* digit but the last is in 0 .. Base - 1, so the highest digit that is not
\* 0 gives the sign.  EpsInv is Base * Base.
Base == 1000

RECURSIVE Llevar(_, _, _)
Llevar(p, k, c) ==
    IF k > Len(p)
    THEN IF -Base < c /\ c < Base THEN <<c>>
         ELSE <<c % Base>> \o Llevar(p, k, c \div Base)
    ELSE LET v == p[k] + c
         IN  <<v % Base>> \o Llevar(p, k + 1, v \div Base)

GrandeDe(n) == Llevar(<<n>>, 1, 0)
GrandePor(p, r) == Llevar(PoliPor(p, r), 1, 0)
GrandeMenos(p, r) == Llevar(PoliMas(p, PoliNeg(r)), 1, 0)

\* q * EpsInv + 4
GrandeD(q) == Llevar(<<4, 0, q>>, 1, 0)

GrandeSigno(p) ==
    LET nz == {k \in DOMAIN p : p[k] # 0}
    IN  IF nz = {} THEN 0
        ELSE IF p[CHOOSE k \in nz : \A j \in nz : j <= k] > 0 THEN 1 ELSE -1

GrandeNumerador(c, q) ==
    LET uno(i, j, k) == GrandePor(GrandePor(GrandeDe(c[i]), GrandeD(q[j])), GrandeD(q[k]))
    IN  Llevar(PoliMas(uno(1, 2, 3), PoliMas(uno(2, 1, 3), uno(3, 1, 2))), 1, 0)

GrandeDenominador(q) == GrandePor(GrandePor(GrandeD(q[1]), GrandeD(q[2])), GrandeD(q[3]))

\* The sign of x - y for scores of any size.
SignoDifGrande(x, y) ==
    IF x.q = y.q
    THEN GrandeSigno(GrandeNumerador([i \in 1..3 |-> x.c[i] - y.c[i]], x.q))
    ELSE GrandeSigno(GrandeMenos(
            GrandePor(GrandeNumerador(x.c, x.q), GrandeDenominador(y.q)),
            GrandePor(GrandeNumerador(y.c, y.q), GrandeDenominador(x.q))))

\* The products of SignoPoli and SignoPoliN stay within the machine integers
\* for scores of this size.
Pequeno(x) == \A i \in 1..3 : x.c[i] <= 1600 /\ x.q[i] <= 12

SignoDif(x, y) ==
    IF ~(Pequeno(x) /\ Pequeno(y)) THEN SignoDifGrande(x, y)
    ELSE IF x.q = y.q THEN SignoDifMismoContexto(x, y) ELSE SignoDifGeneral(x, y)

\* x < y, x > y and x == y as float64 compares them (false on NaN).
Menor(x, y) == IF EsNaN(x) \/ EsNaN(y) THEN FALSE ELSE SignoDif(x, y) < 0
Mayor(x, y) == Menor(y, x)
Igual(x, y) == IF EsNaN(x) \/ EsNaN(y) THEN FALSE ELSE SignoDif(x, y) = 0

EsCero(x) == ~EsNaN(x) /\ x.c = <<0, 0, 0>>

\* np.log1p(x) is kept symbolic: log1p is strictly increasing on x >= 0 with
\* log1p(0) = 0, and log1p(NaN) = NaN.
Log1p(x) == IF EsNaN(x) THEN NaN ELSE [t |-> "log1p", de |-> x]
Log1pEsCero(s) == ~EsNaN(s) /\ EsCero(s.de)
Log1pMenor(s1, s2) ==
    IF EsNaN(s1) \/ EsNaN(s2) THEN FALSE ELSE Menor(s1.de, s2.de)
Log1pIgual(s1, s2) ==
    IF EsNaN(s1) \/ EsNaN(s2) THEN FALSE ELSE Igual(s1.de, s2.de)

\* A percentile: the fraction num / den of two small naturals, or NaN.
Frac(num, den) == [t |-> "frac", num |-> num, den |-> den]

\* p < c / 100 for a two-decimal literal, as float64 compares.
FracMenor(p, c) == ~EsNaN(p) /\ 100 * p.num < c * p.den

-----------------------------------------------------------------------------
(* Tables.  A DataFrame is held as a bag of rows: a function from the      *)
(* distinct rows [hora, consumo_kwh, agua_litros, co2_kg] to the number of *)
(* times each occurs (> 0).                                                *)

RECURSIVE SumaDe(_, _)
SumaDe(f, S) ==
    IF S = {} THEN 0
    ELSE LET x == CHOOSE x \in S : TRUE IN f[x] + SumaDe(f, S \ {x})

\* len(df)
Filas(df) == SumaDe(df, DOMAIN df)

\* Mutant of FiltrarHora: the hour filter is dropped.
FiltrarHoraSinFiltro(df, hora) == df

\* df[df['hora'] == hora]
FiltrarHora(df, hora) ==
    [r \in {r \in DOMAIN df : r.hora = hora} |-> df[r]]

\* Number of rows of df[var] with a value <= v.
CuentaHasta(df, var, v) ==
    SumaDe(df, {r \in DOMAIN df : r[var] <= v})

\* The i-th smallest value (0-based) of column var.
Ordenado(df, var, i) ==
    LET vals == {r[var] : r \in DOMAIN df}
    IN  CHOOSE v \in vals :
            /\ CuentaHasta(df, var, v) > i
            /\ \A u \in vals : u < v => CuentaHasta(df, var, u) <= i

\* 4 * serie.quantile(cuartos / 4), pandas' default linear interpolation:
\* position (n - 1) * q, value s[lo] + frac * (s[lo + 1] - s[lo]).
Cuantil4(df, var, cuartos) ==
    LET n == Filas(df)
        pos4 == (n - 1) * cuartos
        lo == pos4 \div 4
        fr == pos4 % 4
        slo == Ordenado(df, var, lo)
        shi == IF fr = 0 THEN slo ELSE Ordenado(df, var, lo + 1)
    IN  4 * slo + fr * (shi - slo)

\* 4 * serie.median()
Mediana4(df, var) == Cuantil4(df, var, 2)

\* 4 * (serie.quantile(0.75) - serie.quantile(0.25))
Iqr4(df, var) == Cuantil4(df, var, 3) - Cuantil4(df, var, 1)

\* abs(valor - med) / (iqr + 1e-6)
ZRobusto(valor, med4, iqr4) == Z(Abs(4 * valor - med4), iqr4)

\* Mutant of ScorePonderado: the CO2 weight is 0.35, so the weights sum to 1.1.
ScorePonderadoPesoDeMas(zc, za, zo) ==
    IF EsNaN(zc) \/ EsNaN(za) \/ EsNaN(zo) THEN NaN
    ELSE Lin(<<PesoConsumo * zc.a, PesoAgua * za.a, PesoAgua * zo.a>>,
             <<zc.q, za.q, zo.q>>)

\* 0.4 * z_consumo + 0.35 * z_agua + 0.25 * z_co2
ScorePonderado(zc, za, zo) ==
    IF EsNaN(zc) \/ EsNaN(za) \/ EsNaN(zo) THEN NaN
    ELSE Lin(<<PesoConsumo * zc.a, PesoAgua * za.a, PesoCO2 * zo.a>>,
             <<zc.q, za.q, zo.q>>)

-----------------------------------------------------------------------------
(* PART 1: the batch pass over df_global (module level, lines 40-135).     *)

\* The median and IQR of every analysed column of one hour group
\* (groupby('hora')[var].transform, lines 60-64).
EstadGrupo(grupo) ==
    [var \in {variables[i] : i \in 1..3} |->
        [mediana4 |-> Mediana4(grupo, var), iqr4 |-> Iqr4(grupo, var)]]

\* results[f'{var}_z'] of a row: an IQR of 0 is replaced by NaN before the
\* guard is added, and x / (NaN + 1e-6) is NaN.
ZBatch(valor, mediana4, iqr4) ==
    IF iqr4 = 0 THEN NaN ELSE ZRobusto(valor, mediana4, iqr4)

\* 0.4 * consumo_kwh_z + 0.35 * agua_litros_z + 0.25 * co2_kg_z
ScoreRawBatch(zc, za, zo) == ScorePonderado(zc, za, zo)

\* f itself, held by TLC as a table of its values.
Tabular(f) == f @@ << >>

\* Sections 2-4: the z columns, anomalia_score_raw and anomalia_score.
Puntuar(df) ==
    LET est == Tabular([h \in {r.hora : r \in DOMAIN df} |-> EstadGrupo(FiltrarHora(df, h))])
    IN  Tabular([r \in DOMAIN df |->
            LET e == est[r.hora]
                zc == ZBatch(r.consumo_kwh, e.consumo_kwh.mediana4, e.consumo_kwh.iqr4)
                za == ZBatch(r.agua_litros, e.agua_litros.mediana4, e.agua_litros.iqr4)
                zo == ZBatch(r.co2_kg, e.co2_kg.mediana4, e.co2_kg.iqr4)
                raw == ScoreRawBatch(zc, za, zo)
            IN  [consumo_kwh_z |-> zc, agua_litros_z |-> za, co2_kg_z |-> zo,
                 anomalia_score_raw |-> raw, anomalia_score |-> Log1p(raw)]])

\* Mutant of RankPct: the rank is taken over the whole table (no groupby).
RankPctSinGrupo(df, punt, r) ==
    LET s == punt[r].anomalia_score
        validos == SumaDe(df, {h \in DOMAIN df : ~EsNaN(punt[h].anomalia_score)})
        menores == SumaDe(df, {h \in DOMAIN df : Log1pMenor(punt[h].anomalia_score, s)})
        iguales == SumaDe(df, {h \in DOMAIN df : Log1pIgual(punt[h].anomalia_score, s)})
    IN  IF EsNaN(s) THEN NaN
        ELSE Frac(2 * menores + iguales + 1, 2 * validos)

\* Mutant of RankPct: the fraction of scores of the group strictly below.
RankPctMenores(df, punt, r) ==
    LET grupo == {h \in DOMAIN df : h.hora = r.hora}
        s == punt[r].anomalia_score
        validos == SumaDe(df, {h \in grupo : ~EsNaN(punt[h].anomalia_score)})
        menores == SumaDe(df, {h \in grupo : Log1pMenor(punt[h].anomalia_score, s)})
    IN  IF EsNaN(s) THEN NaN
        ELSE Frac(menores, validos)

\* groupby('hora')['anomalia_score'].rank(pct=True): average rank among the
\* non-NaN scores of the hour group, divided by their number; NaN stays NaN.
RankPct(df, punt, r) ==
    LET grupo == {h \in DOMAIN df : h.hora = r.hora}
        s == punt[r].anomalia_score
        validos == SumaDe(df, {h \in grupo : ~EsNaN(punt[h].anomalia_score)})
        menores == SumaDe(df, {h \in grupo : Log1pMenor(punt[h].anomalia_score, s)})
        iguales == SumaDe(df, {h \in grupo : Log1pIgual(punt[h].anomalia_score, s)})
    IN  IF EsNaN(s) THEN NaN
        ELSE Frac(2 * menores + iguales + 1, 2 * validos)

\* def clasificar_anomalia(p)
clasificar_anomalia(p) ==
    IF FracMenor(p, 90) THEN "Normal"
    ELSE IF FracMenor(p, 97) THEN "Alerta"
    ELSE "Critica"

\* The DataFrame `results` after section 6: the derived columns of each row.
BatchResults(df) ==
    LET punt == Puntuar(df)
    IN  [r \in DOMAIN df |->
            LET p == RankPct(df, punt, r)
            IN  [consumo_kwh_z |-> punt[r].consumo_kwh_z,
                 agua_litros_z |-> punt[r].agua_litros_z,
                 co2_kg_z |-> punt[r].co2_kg_z,
                 anomalia_score_raw |-> punt[r].anomalia_score_raw,
                 anomalia_score |-> punt[r].anomalia_score,
                 anomalia_percentil |-> p,
                 nivel_anomalia |-> clasificar_anomalia(p)]]

\* Mutant of DfTrasBatch: results is df_global itself (no copy), so the
\* derived columns land in df_global.
DfSinCopia(df, res) ==
    LET ext(r) == r @@ res[r]
    IN  [x \in {ext(r) : r \in DOMAIN df} |-> df[CHOOSE r \in DOMAIN df : ext(r) = x]]

\* results = df_global.copy(): the derived columns are written to the copy,
\* so df_global is after the batch pass what it was before.
DfTrasBatch(df, res) == df

\* Section 8.  The rows of `results` whose tier is 'Critica', as a bag.
Criticas(df, res) ==
    [r \in {r \in DOMAIN df : res[r].nivel_anomalia = "Critica"} |-> df[r]]

\* .head(10)
TopN == 10

\* Mutant of VaAntes: ascending=True.
VaAntesAscendente(res, x, y) ==
    /\ ~EsNaN(res[x].anomalia_score_raw)
    /\ \/ EsNaN(res[y].anomalia_score_raw)
       \/ Menor(res[x].anomalia_score_raw, res[y].anomalia_score_raw)

\* sort_values('anomalia_score_raw', ascending=False) must put row x before
\* row y: a larger score goes first and NaN goes last (na_position='last').
VaAntes(res, x, y) ==
    /\ ~EsNaN(res[x].anomalia_score_raw)
    /\ \/ EsNaN(res[y].anomalia_score_raw)
       \/ Mayor(res[x].anomalia_score_raw, res[y].anomalia_score_raw)

\* The rows of the bag that the sort may put first.
Primeras(pend, res) ==
    {r \in DOMAIN pend : \A x \in DOMAIN pend : ~VaAntes(res, x, r)}

\* The bag without one occurrence of r.
Quitar(pend, r) ==
    IF pend[r] = 1 THEN [x \in DOMAIN pend \ {r} |-> pend[x]]
    ELSE [pend EXCEPT ![r] = @ - 1]

\* The columns section 8 keeps of a row (timestamp is not modelled).
Seleccion(r, res) ==
    [hora |-> r.hora, consumo_kwh |-> r.consumo_kwh, agua_litros |-> r.agua_litros,
     anomalia_score_raw |-> res[r].anomalia_score_raw,
     anomalia_percentil |-> res[r].anomalia_percentil,
     co2_kg |-> r.co2_kg]

\* Every value .sort_values(...).head(n) can have: the order of rows with
\* equal scores (and of NaN rows) is not fixed by the bag, so each order is
\* a possible outcome.
RECURSIVE Extractos(_, _, _)
Extractos(pend, res, n) ==
    IF n = 0 \/ DOMAIN pend = {} THEN {<< >>}
    ELSE UNION { {<<Seleccion(r, res)>> \o s : s \in Extractos(Quitar(pend, r), res, n - 1)} :
                    r \in Primeras(pend, res) }

-----------------------------------------------------------------------------
(* PART 2: detectar_anomalia_evento and respuesta_chatbot.                 *)
(* An argument value is an integer Ent(v), the float NaN, or None.         *)
(* A call ends in Retorna(value) or in Lanza(exception).                   *)

Ent(v) == [t |-> "int", v |-> v]
None == [t |-> "none"]
Nada == [t |-> "nada"]
Retorna(v) == [t |-> "ok", valor |-> v]
Lanza(e) == [t |-> "exc", exc |-> e]

\* def score_robusto(valor, serie), serie = contexto[var]:
\* abs(None - med) raises TypeError, abs(nan - med) is nan.
score_robusto(valor, contexto, var) ==
    IF valor.t = "none" THEN Lanza("TypeError")
    ELSE IF valor.t = "nan" THEN Retorna(NaN)
    ELSE Retorna(ZRobusto(valor.v, Mediana4(contexto, var), Iqr4(contexto, var)))

\* scores_hist (lines 296-305): the weighted score of every historical row
\* of the context; the IQR is not replaced here.
ScoresHist(contexto) ==
    LET mc == Mediana4(contexto, "consumo_kwh")
        qc == Iqr4(contexto, "consumo_kwh")
        ma == Mediana4(contexto, "agua_litros")
        qa == Iqr4(contexto, "agua_litros")
        mo == Mediana4(contexto, "co2_kg")
        qo == Iqr4(contexto, "co2_kg")
    IN  [h \in DOMAIN contexto |->
            ScorePonderado(ZRobusto(h.consumo_kwh, mc, qc),
                           ZRobusto(h.agua_litros, ma, qa),
                           ZRobusto(h.co2_kg, mo, qo))]

\* Mutant of CuentaMenores: > in place of <.
CuentaMayores(contexto, scores_hist, score_raw) ==
    SumaDe(contexto, {h \in DOMAIN contexto : Mayor(scores_hist[h], score_raw)})

\* Mutant of CuentaMenores: <= in place of <.
CuentaMenoresOIguales(contexto, scores_hist, score_raw) ==
    SumaDe(contexto, {h \in DOMAIN contexto : ~Mayor(scores_hist[h], score_raw)})

\* (scores_hist < score_raw).sum()
CuentaMenores(contexto, scores_hist, score_raw) ==
    SumaDe(contexto, {h \in DOMAIN contexto : Menor(scores_hist[h], score_raw)})

\* Mutant of ContextoInsuficiente: the minimum is off by one.
ContextoInsuficienteMenosUno(n) == n < MinContexto - 1

\* if len(contexto) < 50
ContextoInsuficiente(n) == n < MinContexto

\* Mutant of ScoreRawEvento: near-equal weights 0.34, 0.33, 0.33.
ScoreRawEventoPesosIguales(zc, za, zo) ==
    IF EsNaN(zc) \/ EsNaN(za) \/ EsNaN(zo) THEN NaN
    ELSE Lin(<<34 * zc.a, 33 * za.a, 33 * zo.a>>, <<zc.q, za.q, zo.q>>)

\* score_raw = 0.4 * z_consumo + 0.35 * z_agua + 0.25 * z_co2
ScoreRawEvento(zc, za, zo) == ScorePonderado(zc, za, zo)

\* The tier chain of lines 311-316 on percentil = menores / n.
NivelEvento(percentil) ==
    IF FracMenor(percentil, 90) THEN "Normal"
    ELSE IF FracMenor(percentil, 97) THEN "Alerta"
    ELSE "Critica"

\* Mutant of Causas: the threshold is 2.
CausasUmbralDos(zc, za, zo) ==
    LET c1 == IF ZMayor(zc, 2) THEN <<"consumo energetico inusualmente alto">> ELSE << >>
        c2 == IF ZMayor(za, 2) THEN <<"consumo de agua fuera de lo normal">> ELSE << >>
        c3 == IF ZMayor(zo, 2) THEN <<"emisiones de CO2 elevadas">> ELSE << >>
        causas == c1 \o c2 \o c3
    IN  IF causas = << >> THEN <<"comportamiento combinado atipico">> ELSE causas

\* Mutant of Causas: the combined cause is appended unconditionally.
CausasSiempreCombinada(zc, za, zo) ==
    LET c1 == IF ZMayor(zc, UmbralZ) THEN <<"consumo energetico inusualmente alto">> ELSE << >>
        c2 == IF ZMayor(za, UmbralZ) THEN <<"consumo de agua fuera de lo normal">> ELSE << >>
        c3 == IF ZMayor(zo, UmbralZ) THEN <<"emisiones de CO2 elevadas">> ELSE << >>
    IN  c1 \o c2 \o c3 \o <<"comportamiento combinado atipico">>

\* Lines 320-330.
Causas(zc, za, zo) ==
    LET c1 == IF ZMayor(zc, UmbralZ) THEN <<"consumo energetico inusualmente alto">> ELSE << >>
        c2 == IF ZMayor(za, UmbralZ) THEN <<"consumo de agua fuera de lo normal">> ELSE << >>
        c3 == IF ZMayor(zo, UmbralZ) THEN <<"emisiones de CO2 elevadas">> ELSE << >>
        causas == c1 \o c2 \o c3
    IN  IF causas = << >> THEN <<"comportamiento combinado atipico">> ELSE causas

\* round(100 * p, 2) in hundredths, ties to even: 9800 stands for 98.00.
RedondearPct(p) ==
    LET q == (10000 * p.num) \div p.den
        r2 == 2 * ((10000 * p.num) % p.den)
    IN  IF r2 < p.den THEN q
        ELSE IF r2 > p.den THEN q + 1
        ELSE IF q % 2 = 0 THEN q ELSE q + 1

\* round(score_final, 2): symbolic, like log1p; round(nan, 2) is nan.
RedondearScore(s) == IF EsNaN(s) THEN NaN ELSE [t |-> "round2", de |-> s]

\* Mutant of detectar_anomalia_evento: the causes are looked for only when
\* the tier is not 'Normal'.
DetectarCausasSegunNivel(df_ref, timestamp, hora, consumo_kwh, agua_litros, co2_kg) ==
    LET contexto == FiltrarHora(df_ref, hora)
        n == Filas(contexto)
        zc == score_robusto(consumo_kwh, contexto, "consumo_kwh")
        za == score_robusto(agua_litros, contexto, "agua_litros")
        zo == score_robusto(co2_kg, contexto, "co2_kg")
        score_raw == ScoreRawEvento(zc.valor, za.valor, zo.valor)
        percentil == Frac(CuentaMenores(contexto, ScoresHist(contexto), score_raw), n)
    IN  IF ContextoInsuficiente(n)
        THEN Retorna([nivel |-> "Normal",
                      mensaje |-> "No hay suficientes datos historicos para evaluar anomalias."])
        ELSE IF zc.t = "exc" THEN zc
        ELSE IF za.t = "exc" THEN za
        ELSE IF zo.t = "exc" THEN zo
        ELSE Retorna([timestamp |-> timestamp,
                      nivel |-> NivelEvento(percentil),
                      percentil |-> RedondearPct(percentil),
                      score |-> RedondearScore(Log1p(score_raw)),
                      explicacion |->
                          IF NivelEvento(percentil) = "Normal"
                          THEN <<"comportamiento combinado atipico">>
                          ELSE Causas(zc.valor, za.valor, zo.valor)])

\* def detectar_anomalia_evento(df_ref, timestamp, hora, consumo_kwh,
\*                              agua_litros, co2_kg)
detectar_anomalia_evento(df_ref, timestamp, hora, consumo_kwh, agua_litros, co2_kg) ==
    LET contexto == FiltrarHora(df_ref, hora)
        n == Filas(contexto)
        zc == score_robusto(consumo_kwh, contexto, "consumo_kwh")
        za == score_robusto(agua_litros, contexto, "agua_litros")
        zo == score_robusto(co2_kg, contexto, "co2_kg")
        score_raw == ScoreRawEvento(zc.valor, za.valor, zo.valor)
        score_final == Log1p(score_raw)
        scores_hist == ScoresHist(contexto)
        percentil == Frac(CuentaMenores(contexto, scores_hist, score_raw), n)
    IN  IF ContextoInsuficiente(n)
        THEN Retorna([nivel |-> "Normal",
                      mensaje |-> "No hay suficientes datos historicos para evaluar anomalias."])
        ELSE IF zc.t = "exc" THEN zc
        ELSE IF za.t = "exc" THEN za
        ELSE IF zo.t = "exc" THEN zo
        ELSE Retorna([timestamp |-> timestamp,
                      nivel |-> NivelEvento(percentil),
                      percentil |-> RedondearPct(percentil),
                      score |-> RedondearScore(score_final),
                      explicacion |-> Causas(zc.valor, za.valor, zo.valor)])

\* A candidate as a row of the table.
FilaDeEvento(hora, consumo_kwh, agua_litros, co2_kg) ==
    [hora |-> hora, consumo_kwh |-> consumo_kwh.v, agua_litros |-> agua_litros.v,
     co2_kg |-> co2_kg.v]

\* Mutant of DfTrasEvento: the call adds the candidate to the history.
DfConEvento(df_ref, hora, consumo_kwh, agua_litros, co2_kg) ==
    IF \E x \in {consumo_kwh, agua_litros, co2_kg} : x.t # "int" THEN df_ref
    ELSE LET f == FilaDeEvento(hora, consumo_kwh, agua_litros, co2_kg)
         IN  IF f \in DOMAIN df_ref THEN [df_ref EXCEPT ![f] = @ + 1]
             ELSE [r \in DOMAIN df_ref \cup {f} |-> IF r = f THEN 1 ELSE df_ref[r]]

\* df_ref after a call of detectar_anomalia_evento: the function only reads
\* it (contexto is a filtered copy, nothing is assigned into df_ref).
DfTrasEvento(df_ref, hora, consumo_kwh, agua_litros, co2_kg) == df_ref

\* ", ".join(causas): the joined text is kept as the list of its items.
Unir(causas) == causas

\* def respuesta_chatbot(resultado): resultado[k] raises KeyError when the
\* dict has no key k.  A message is its template and the values put in it.
respuesta_chatbot(resultado) ==
    IF resultado.nivel = "Normal"
    THEN IF "timestamp" \notin DOMAIN resultado THEN Lanza("KeyError")
         ELSE Retorna([plantilla |-> "normal", timestamp |-> resultado.timestamp])
    ELSE IF "explicacion" \notin DOMAIN resultado THEN Lanza("KeyError")
    ELSE IF "timestamp" \notin DOMAIN resultado THEN Lanza("KeyError")
    ELSE IF "percentil" \notin DOMAIN resultado THEN Lanza("KeyError")
    ELSE Retorna([plantilla |-> IF resultado.nivel = "Alerta" THEN "alerta" ELSE "critica",
                  timestamp |-> resultado.timestamp,
                  causas |-> Unir(resultado.explicacion),
                  percentil |-> resultado.percentil])

-----------------------------------------------------------------------------
(* Bounds of the model: the historical tables and the candidate events.    *)

MaxValor == 2          \* largest signal value of a historical row
MaxCand == 3           \* largest signal value of a candidate event
FilasOtraHora == 1     \* rows the table holds at the other hour

HoraContexto == 12     \* the hour of evento_usuario
OtraHora == HoraContexto + 1
HoraInvalida == 23 + 1

\* Row counts of the three blocks of rows at HoraContexto.
Formas ==
    { <<49, 0, 0>>, <<24, 25, 0>>,                       \* 49 rows
      <<50, 0, 0>>, <<25, 25, 0>>, <<17, 30, 3>>,         \* 50 rows
      <<30, 15, 5>>, <<45, 3, 2>>,
      <<30, 18, 3>> }                                     \* 51 rows

\* Values a signal takes in the three blocks.
Perfiles ==
    { <<0, 0, 0>>, <<0, 1, 0>>, <<0, 1, MaxValor>>, <<0, 0, MaxValor>> }

Fila(h, e, w, c) ==
    [hora |-> h, consumo_kwh |-> e, agua_litros |-> w, co2_kg |-> c]

\* The bag made of the blocks <<row, count>> of the sequence bloques.
TablaDe(bloques) ==
    LET filas == {bloques[i][1] : i \in {i \in DOMAIN bloques : bloques[i][2] > 0}}
    IN  [r \in filas |->
            SumaDe([i \in DOMAIN bloques |-> bloques[i][2]],
                   {i \in DOMAIN bloques : bloques[i][1] = r})]

Tablas ==
    { TablaDe(<< <<Fila(HoraContexto, pe[1], pw[1], pc[1]), f[1]>>,
                 <<Fila(HoraContexto, pe[2], pw[2], pc[2]), f[2]>>,
                 <<Fila(HoraContexto, pe[3], pw[3], pc[3]), f[3]>>,
                 <<Fila(OtraHora, 0, 0, MaxValor), FilasOtraHora>> >>) :
        f \in Formas, pe \in Perfiles, pw \in Perfiles, pc \in Perfiles }

Evento(ts, h, e, w, c) ==
    [t |-> "evento", timestamp |-> ts, hora |-> h,
     consumo_kwh |-> e, agua_litros |-> w, co2_kg |-> c]

Nulos == {NaN, None}
Enteros == {Ent(v) : v \in 0..MaxCand}
Extremos == {Ent(0), Ent(MaxCand)}

\* The candidate events: every integer triple at HoraContexto, one null
\* signal among extreme values, and a few events at the other hours.
Eventos ==
    {Evento("2025-06-24 12:00", HoraContexto, e, w, c) :
        e \in Enteros, w \in Enteros, c \in Enteros}
    \cup {Evento("2025-06-24 12:00", HoraContexto, x, a, b) : x \in Nulos, a \in Extremos, b \in Extremos}
    \cup {Evento("2025-06-24 12:00", HoraContexto, a, x, b) : x \in Nulos, a \in Extremos, b \in Extremos}
    \cup {Evento("2025-06-24 12:00", HoraContexto, a, b, x) : x \in Nulos, a \in Extremos, b \in Extremos}
    \cup {Evento("2025-06-24 12:00", h, e, Ent(0), Ent(0)) :
            h \in {OtraHora, HoraInvalida}, e \in Nulos \cup {Ent(0)}}

\* Tables of the chatbot sessions: shapes of Formas and a heavy-tailed one
\* (12 rows of 50 above the upper quartile), the co2 column on its widest
\* profile.
FormasChat == { <<49, 0, 0>>, <<50, 0, 0>>, <<30, 15, 5>>, <<38, 12, 0>> }

TablasChat ==
    { TablaDe(<< <<Fila(HoraContexto, pe[1], pw[1], 0), f[1]>>,
                 <<Fila(HoraContexto, pe[2], pw[2], 1), f[2]>>,
                 <<Fila(HoraContexto, pe[3], pw[3], MaxValor), f[3]>>,
                 <<Fila(OtraHora, 0, 0, MaxValor), FilasOtraHora>> >>) :
        f \in FormasChat, pe \in Perfiles, pw \in Perfiles }

\* Candidates of the chatbot sessions.
ValoresChat == {Ent(0), Ent(1), Ent(MaxCand)}

EventosChat ==
    {Evento("2025-06-24 12:00", HoraContexto, e, w, c) :
        e \in ValoresChat, w \in ValoresChat, c \in ValoresChat}
    \cup {Evento("2025-06-24 12:00", HoraContexto, x, Ent(0), Ent(0)) : x \in Nulos}

\* Tables of many small hour groups, for the batch pass and section 8.
MaxPico == 5           \* largest signal value of a variable hour group
FilasPlanas == 2       \* most rows of a constant hour group
HorasFijas == 8        \* hours 0 .. HorasFijas - 1 hold a fixed group, the
                       \* next three hours a group of any kind

\* Five rows at hour h: two at 0, two at b and one at v, in every signal.
GrupoPico(h, b, v) ==
    << <<Fila(h, 0, 0, 0), 2>>, <<Fila(h, b, b, b), 2>>, <<Fila(h, v, v, v), 1>> >>

\* n rows at hour h, all at 0.
GrupoPlano(h, n) == << <<Fila(h, 0, 0, 0), n>> >>

\* The kinds of group: <<b, v>> with b > 0 is GrupoPico, <<0, n>> GrupoPlano.
Tipos ==
    {<<b, v>> : b \in 1..2, v \in 3..MaxPico} \cup {<<0, n>> : n \in 0..FilasPlanas}

Grupo(h, tipo) ==
    IF tipo[1] = 0 THEN GrupoPlano(h, tipo[2]) ELSE GrupoPico(h, tipo[1], tipo[2])

\* The fixed groups: hour h peaks at 3 + h over a base of 1.
RECURSIVE GruposFijos(_)
GruposFijos(n) ==
    IF n = 0 THEN << >> ELSE GruposFijos(n - 1) \o GrupoPico(n - 1, 1, 2 + n)

TablasLote ==
    { TablaDe(GruposFijos(HorasFijas)
              \o Grupo(HorasFijas, t[1]) \o Grupo(HorasFijas + 1, t[2])
              \o Grupo(HorasFijas + 2, t[3])) :
        t \in Tipos \X Tipos \X Tipos }

\* Hour contexts of 60 readings in real units whose medians are 5000 kWh,
\* 100000 l and 900 kg and whose IQRs are 500, 20000 and 100: 16 low, 28
\* middle and 16 high readings, of which up to MaxAtipicas low ones and up
\* to MaxAtipicas high ones are replaced by an outlying reading (the
\* quartiles fall between readings 15-16 and 45-46 and do not move).
MaxAtipicas == 3
AtipicasBajas == { <<1000, 10000, 100>>, <<4000, 60000, 700>> }
AtipicasAltas == { <<7000, 170000, 1500>>, <<7200, 180000, 1600>>, <<9000, 250000, 2000>> }
FilaReal(v) == Fila(HoraContexto, v[1], v[2], v[3])
TablasEjemplo ==
    { TablaDe(<< <<FilaReal(ab), kb>>,
                 <<FilaReal(<<4750, 90000, 850>>), 16 - kb>>,
                 <<FilaReal(<<5000, 100000, 900>>), 28>>,
                 <<FilaReal(<<5250, 110000, 950>>), 16 - ka>>,
                 <<FilaReal(aa), ka>> >>) :
        kb \in 0..MaxAtipicas, ka \in 0..MaxAtipicas,
        ab \in AtipicasBajas, aa \in AtipicasAltas }

\* evento_usuario = {"timestamp": "2025-06-24 12:00", "hora": 12, ...}
evento_usuario ==
    Evento("2025-06-24 12:00", HoraContexto, Ent(7200), Ent(180000), Ent(1600))

-----------------------------------------------------------------------------
(* PART 3: the prediction service.  llm_engine.py.                         *)
(* A Python value is Ent(v), Cad(s), None, a dict Dic(d) (d a function     *)
(* from keys to values), a float Flo(c) of c hundredths, or a model        *)
(* output Pred(m) of m thousandths (numpy float32 before rounding).        *)

Cad(s) == [t |-> "str", s |-> s]
Dic(d) == [t |-> "dict", d |-> d]
Flo(c) == [t |-> "float", cent |-> c]
Pred(m) == [t |-> "pred", mil |-> m]

\* What joblib.load gave for a model file: a fitted model, or an object
\* that is falsy in `if modelo` (the file's content is not in the
\* repository).  The global stays None when the load raised.
Modelo(nombre) == [t |-> "modelo", nombre |-> nombre]
Vacio == [t |-> "vacio"]

\* bool(x)
Verdadero(x) ==
    CASE x.t = "none" -> FALSE
      [] x.t = "vacio" -> FALSE
      [] x.t = "dict" -> DOMAIN x.d # {}
      [] OTHER -> TRUE

\* d.get(k, defecto) on the function d
DictGet(d, k, defecto) == IF k \in DOMAIN d THEN d[k] ELSE defecto

\* SEDES = {1: "Chiquinquira", 2: "Tunja", 3: "Duitama", 4: "Sogamoso"}
SEDES ==
    (1 :> "Chiquinquira") @@ (2 :> "Tunja") @@ (3 :> "Duitama") @@ (4 :> "Sogamoso")

\* SEDES.get(sede_id, f"Sede {sede_id}") for a hashable sede_id
SedesGet(sede_id) ==
    IF sede_id.t = "int" /\ sede_id.v \in DOMAIN SEDES THEN Cad(SEDES[sede_id.v])
    ELSE [t |-> "fstr", plantilla |-> "Sede {sede_id}", sede_id |-> sede_id]

\* SECTORES: sector name to the suffix of its one-hot column
SECTORES ==
    [Comedores |-> "sector_comedor", Salones |-> "sector_salon",
     Laboratorios |-> "sector_laboratorio", Auditorios |-> "sector_auditorio",
     Oficinas |-> "sector_oficina"]

\* X_dict (lines 100-110): the five inputs and the one-hot sector columns.
XDict(sede_id, sector, hora, dia_semana, temperatura, ocupacion) ==
    [ocupacion_pct |-> ocupacion, temperatura_exterior_c |-> temperatura,
     hora |-> hora, dia_semana |-> dia_semana, sede_id |-> sede_id,
     sector_comedor |-> Ent(IF sector = Cad("Comedores") THEN 1 ELSE 0),
     sector_salon |-> Ent(IF sector = Cad("Salones") THEN 1 ELSE 0),
     sector_laboratorio |-> Ent(IF sector = Cad("Laboratorios") THEN 1 ELSE 0),
     sector_auditorio |-> Ent(IF sector = Cad("Auditorios") THEN 1 ELSE 0),
     sector_oficina |-> Ent(IF sector = Cad("Oficinas") THEN 1 ELSE 0)]

\* config_features.get(clave, []) if config_features else []
Features(config, clave) ==
    IF Verdadero(config) THEN DictGet(config.d, clave, << >>) ELSE << >>

\* X_consumo = [X_dict.get(f, 0) for f in features_consumo]
XConsumo(features, X_dict) ==
    [i \in 1..Len(features) |-> DictGet(X_dict, features[i], Ent(0))]

\* Mutant of XAgua: no case for 'pred_consumo_kwh', the feature is looked up
\* in X_dict like the others.
XAguaSinCascada(features, X_dict, pred_consumo) ==
    [i \in 1..Len(features) |-> DictGet(X_dict, features[i], Ent(0))]

\* X_agua (lines 118-123)
XAgua(features, X_dict, pred_consumo) ==
    [i \in 1..Len(features) |->
        IF features[i] = "pred_consumo_kwh" THEN pred_consumo
        ELSE DictGet(X_dict, features[i], Ent(0))]

\* X_co2 (lines 129-136)
XCo2(features, X_dict, pred_consumo, pred_agua) ==
    [i \in 1..Len(features) |->
        IF features[i] = "pred_consumo_kwh" THEN pred_consumo
        ELSE IF features[i] = "pred_agua_litros" THEN pred_agua
        ELSE DictGet(X_dict, features[i], Ent(0))]

\* modelo.predict(X)[0] if modelo else 0.  What a fitted model answers is
\* not in the repository: salida is its outcome for this X, Retorna(Pred(m))
\* or Lanza(e).
Predecir(modelo, salida) == IF Verdadero(modelo) THEN salida ELSE Retorna(Ent(0))

\* float(round(x, 2)): a model output of m thousandths rounds half to even
\* to hundredths; the int 0 becomes 0.0.
Redondear2(x) ==
    IF x.t = "int" THEN Flo(100 * x.v)
    ELSE LET q == x.mil \div 10
             r == x.mil % 10
         IN  Flo(IF r < 5 THEN q ELSE IF r > 5 THEN q + 1
                 ELSE IF q % 2 = 0 THEN q ELSE q + 1)

\* The three stages of predecir_completo in order (lines 112-138): the
\* features each model is given and what it answers; a stage is reached only
\* when the stages before it did not raise.  g holds the module globals,
\* sal[k] the outcome of stage k's predict.
Cascada(g, sede_id, sector, hora, dia_semana, temperatura, ocupacion, sal) ==
    LET X_dict == XDict(sede_id, sector, hora, dia_semana, temperatura, ocupacion)
        features_consumo == Features(g.config_features, "features_stage1")
        X_consumo == XConsumo(features_consumo, X_dict)
        pred_consumo == Predecir(g.modelo_consumo, sal[1])
        features_agua == Features(g.config_features, "features_stage2")
        X_agua == XAgua(features_agua, X_dict, pred_consumo.valor)
        pred_agua == Predecir(g.modelo_agua, sal[2])
        features_co2 == Features(g.config_features, "features_stage3")
        X_co2 == XCo2(features_co2, X_dict, pred_consumo.valor, pred_agua.valor)
        pred_co2 == Predecir(g.modelo_co2, sal[3])
        e1 == <<[ev |-> "predict", etapa |-> "consumo", llamado |-> Verdadero(g.modelo_consumo),
                 features |-> features_consumo, X |-> X_consumo, pred |-> pred_consumo]>>
        e2 == <<[ev |-> "predict", etapa |-> "agua", llamado |-> Verdadero(g.modelo_agua),
                 features |-> features_agua, X |-> X_agua, pred |-> pred_agua]>>
        e3 == <<[ev |-> "predict", etapa |-> "co2", llamado |-> Verdadero(g.modelo_co2),
                 features |-> features_co2, X |-> X_co2, pred |-> pred_co2]>>
    IN  IF pred_consumo.t = "exc" THEN e1
        ELSE IF pred_agua.t = "exc" THEN e1 \o e2
        ELSE e1 \o e2 \o e3

\* Mutant of predecir_completo: no try / except around the stages.
PredecirSinExcept(g, sede_id, sector, hora, dia_semana, temperatura, ocupacion, sal) ==
    LET etapas == Cascada(g, sede_id, sector, hora, dia_semana, temperatura, ocupacion, sal)
        ultima == etapas[Len(etapas)]
    IN  IF ultima.pred.t = "exc" THEN ultima.pred
        ELSE Retorna(Dic([energia_kwh |-> Redondear2(etapas[1].pred.valor),
                          agua_litros |-> Redondear2(etapas[2].pred.valor),
                          co2_kg |-> Redondear2(etapas[3].pred.valor),
                          sede |-> SedesGet(sede_id),
                          sector |-> sector]))

\* def predecir_completo(sede_id, sector, hora, dia_semana, temperatura,
\*                       ocupacion), for a hashable sede_id: the stages, then
\* the rounded outputs; any exception of a stage gives the dict of zeros.
predecir_completo(g, sede_id, sector, hora, dia_semana, temperatura, ocupacion, sal) ==
    LET etapas == Cascada(g, sede_id, sector, hora, dia_semana, temperatura, ocupacion, sal)
        ultima == etapas[Len(etapas)]
    IN  IF ultima.pred.t = "exc"
        THEN Retorna(Dic([energia_kwh |-> Ent(0), agua_litros |-> Ent(0), co2_kg |-> Ent(0),
                          sede |-> SedesGet(sede_id),
                          sector |-> sector]))
        ELSE Retorna(Dic([energia_kwh |-> Redondear2(etapas[1].pred.valor),
                          agua_litros |-> Redondear2(etapas[2].pred.valor),
                          co2_kg |-> Redondear2(etapas[3].pred.valor),
                          sede |-> SedesGet(sede_id),
                          sector |-> sector]))

-----------------------------------------------------------------------------
(* preguntas_predefinidas.py.  A text is the sequence of its characters;   *)
(* a letter with an accent is written as the letter and an apostrophe      *)
(* ("a'"), n with tilde as "n~" and the opening question mark as "?!".     *)

\* PREGUNTAS_PREDEFINIDAS (lines 9-15)
PREGUNTAS_PREDEFINIDAS ==
    << <<"?!", "C", "u", "a'", "n", "t", "a", " ", "e", "n", "e", "r",
          "g", "i'", "a", " ", "c", "o", "n", "s", "u", "m", "i", "r",
          "a'", " ", "e", "l", " ", "l", "a", "b", "o", "r", "a", "t", "o",
          "r", "i", "o", " ", "d", "e", " ", "l", "a", " ", "s", "e", "d",
          "e", " ", "3", " ", "m", "a", "n~", "a", "n", "a", " ", "a", " ",
          "l", "a", "s", " ", "5", "p", "m", "?">>,
       <<"D", "i", "m", "e", " ", "e", "l", " ", "c", "o", "n", "s",
          "u", "m", "o", " ", "d", "e", " ", "l", "o", "s", " ", "c", "o",
          "m", "e", "d", "o", "r", "e", "s", " ", "d", "e", " ", "l", "a",
          " ", "s", "e", "d", "e", " ", "2", " ", "e", "l", " ", "m", "a",
          "r", "t", "e", "s", " ", "a", " ", "l", "a", "s", " ", "1", "2",
          " ", "d", "e", "l", " ", "m", "e", "d", "i", "o", "d", "i'", "a",
          ".">>,
       <<"?!", "C", "u", "a'", "l", " ", "s", "e", "r", "a'", " ", "e",
          "l", " ", "c", "o", "n", "s", "u", "m", "o", " ", "d", "e", " ",
          "o", "f", "i", "c", "i", "n", "a", "s", " ", "e", "n", " ", "l",
          "a", " ", "s", "e", "d", "e", " ", "1", " ", "h", "o", "y", " ",
          "a", " ", "l", "a", "s", " ", "1", "0", ":", "0", "0", " ", "a",
          "m", "?">>,
       <<"?!", "C", "u", "a'", "n", "t", "a", " ", "a", "g", "u", "a",
          " ", "s", "e", " ", "g", "a", "s", "t", "a", "r", "a'", " ", "e",
          "n", " ", "l", "o", "s", " ", "a", "u", "d", "i", "t", "o", "r",
          "i", "o", "s", " ", "d", "e", " ", "l", "a", " ", "s", "e", "d",
          "e", " ", "4", " ", "a", " ", "l", "a", "s", " ", "7", "p", "m",
          "?">>,
       <<"?!", "Q", "u", "e'", " ", "c", "o", "n", "s", "u", "m", "o",
          " ", "t", "e", "n", "d", "r", "a'", "n", " ", "l", "o", "s", " ",
          "s", "a", "l", "o", "n", "e", "s", " ", "d", "e", " ", "l", "a",
          " ", "s", "e", "d", "e", " ", "2", " ", "e", "l", " ", "v", "i",
          "e", "r", "n", "e", "s", " ", "a", " ", "l", "a", "s", " ", "3",
          "p", "m", "?">> >>

\* str.lower(): the capital letters and their lower-case forms.
Mayusculas ==
    <<"A", "B", "C", "D", "E", "F", "G", "H", "I", "J", "K", "L", "M", "N", "O",
      "P", "Q", "R", "S", "T", "U", "V", "W", "X", "Y", "Z",
      "A'", "E'", "I'", "O'", "U'", "N~">>
Minusculas ==
    <<"a", "b", "c", "d", "e", "f", "g", "h", "i", "j", "k", "l", "m", "n", "o",
      "p", "q", "r", "s", "t", "u", "v", "w", "x", "y", "z",
      "a'", "e'", "i'", "o'", "u'", "n~">>
Lower(texto) ==
    Tabular([i \in 1..Len(texto) |->
        IF \E k \in DOMAIN Mayusculas : Mayusculas[k] = texto[i]
        THEN Minusculas[CHOOSE k \in DOMAIN Mayusculas : Mayusculas[k] = texto[i]]
        ELSE texto[i]])

\* patron in texto
Incluye(patron, texto) ==
    \E i \in 0..(Len(texto) - Len(patron)) :
        \A j \in 1..Len(patron) : texto[i + j] = patron[j]

\* def detectar_sector(texto)
detectar_sector(texto) ==
    LET t == Lower(texto)
    IN  IF Incluye(<<"l", "a", "b", "o", "r", "a", "t", "o", "r", "i", "o">>, t)
        THEN "Laboratorios"
        ELSE IF Incluye(<<"c", "o", "m", "e", "d", "o", "r">>, t) THEN "Comedores"
        ELSE IF Incluye(<<"o", "f", "i", "c", "i", "n", "a">>, t) THEN "Oficinas"
        ELSE IF Incluye(<<"a", "u", "d", "i", "t", "o", "r", "i", "o">>, t)
        THEN "Auditorios"
        ELSE IF Incluye(<<"s", "a", "l", "o", "n">>, t)
                \/ Incluye(<<"s", "a", "l", "o'", "n">>, t) THEN "Salones"
        ELSE "General"

\* \s and \d of the regular expression
EsEspacio(c) == c \in {" ", "\t", "\n", "\r"}
Digitos == <<"0", "1", "2", "3", "4", "5", "6", "7", "8", "9">>
EsDigito(c) == \E k \in DOMAIN Digitos : Digitos[k] = c

\* The first position from i on that holds no white space (Len + 1 if none).
RECURSIVE SaltarEspacios(_, _)
SaltarEspacios(t, i) ==
    IF i <= Len(t) /\ EsEspacio(t[i]) THEN SaltarEspacios(t, i + 1) ELSE i

\* Mutant of extraer_sede: the default is sede 1.
ExtraerSedeDefectoUno(texto) ==
    LET t == Lower(texto)
        coincide(i) ==
            /\ SubSeq(t, i, i + 3) = <<"s", "e", "d", "e">>
            /\ SaltarEspacios(t, i + 4) <= Len(t)
            /\ EsDigito(t[SaltarEspacios(t, i + 4)])
        donde == {i \in 1..(Len(t) - 3) : coincide(i)}
    IN  IF donde = {} THEN 1
        ELSE LET i == CHOOSE i \in donde : \A j \in donde : i <= j
                 d == t[SaltarEspacios(t, i + 4)]
             IN  (CHOOSE k \in DOMAIN Digitos : Digitos[k] = d) - 1

\* def extraer_sede(texto): re.search(r'sede\s*(\d)', texto.lower()) takes
\* the leftmost 'sede' that white space and a digit follow.
extraer_sede(texto) ==
    LET t == Lower(texto)
        coincide(i) ==
            /\ SubSeq(t, i, i + 3) = <<"s", "e", "d", "e">>
            /\ SaltarEspacios(t, i + 4) <= Len(t)
            /\ EsDigito(t[SaltarEspacios(t, i + 4)])
        donde == {i \in 1..(Len(t) - 3) : coincide(i)}
    IN  IF donde = {} THEN 2
        ELSE LET i == CHOOSE i \in donde : \A j \in donde : i <= j
                 d == t[SaltarEspacios(t, i + 4)]
             IN  (CHOOSE k \in DOMAIN Digitos : Digitos[k] = d) - 1

\* A date is the number of its day, day 0 being a Monday; timedelta(days=d)
\* adds d.
Weekday(fecha) == fecha % 7

\* Mutant of DiasHasta: a weekday that is today resolves to today.
DiasHastaMismoDia(objetivo, ahora) == (objetivo - Weekday(ahora) + 7) % 7

\* dias_hasta (lines 57-59 and 62-64)
DiasHasta(objetivo, ahora) ==
    LET dias_hasta == (objetivo - Weekday(ahora) + 7) % 7
    IN  IF dias_hasta = 0 THEN 7 ELSE dias_hasta

\* def extraer_fecha_hora(texto), ahora being what datetime.now() reads.
extraer_fecha_hora(texto, ahora) ==
    LET texto_lower == Lower(texto)
        fecha ==
            IF Incluye(<<"m", "a", "n~", "a", "n", "a">>, texto_lower) THEN ahora + 1
            ELSE IF Incluye(<<"h", "o", "y">>, texto_lower) THEN ahora
            ELSE IF Incluye(<<"m", "a", "r", "t", "e", "s">>, texto_lower)
            THEN ahora + DiasHasta(1, ahora)
            ELSE IF Incluye(<<"v", "i", "e", "r", "n", "e", "s">>, texto_lower)
            THEN ahora + DiasHasta(4, ahora)
            ELSE ahora
        hora ==
            IF Incluye(<<"5", "p", "m">>, texto_lower)
               \/ Incluye(<<"5", " ", "p", "m">>, texto_lower) THEN 17
            ELSE IF Incluye(<<"1", "2">>, texto)
                    /\ (Incluye(<<"m", "e", "d", "i", "o", "d", "i'", "a">>, texto_lower)
                        \/ Incluye(<<"m", "e", "d", "i", "o", "d", "i", "a">>, texto_lower))
            THEN 12
            ELSE IF Incluye(<<"1", "0", ":", "0", "0", " ", "a", "m">>, texto_lower)
                    \/ Incluye(<<"1", "0", " ", "a", "m">>, texto_lower) THEN 10
            ELSE IF Incluye(<<"7", "p", "m">>, texto_lower)
                    \/ Incluye(<<"7", " ", "p", "m">>, texto_lower) THEN 19
            ELSE IF Incluye(<<"3", "p", "m">>, texto_lower)
                    \/ Incluye(<<"3", " ", "p", "m">>, texto_lower) THEN 15
            ELSE 9
    IN  <<fecha, hora>>

\* random.randint(a, b) of lines 105-109: the ends of each range stand for
\* the range.
Temperaturas(hora) == IF 6 <= hora /\ hora <= 18 THEN {20, 28} ELSE {15, 22}
Ocupaciones(hora) == IF 6 <= hora /\ hora <= 18 THEN {60, 90} ELSE {10, 40}

\* dias_es
dias_es == <<"Lunes", "Martes", "Miercoles", "Jueves", "Viernes", "Sabado", "Domingo">>

\* float(x) of a prediction value: the int 0 becomes 0.0.
Float(x) == IF x.t = "int" THEN Flo(100 * x.v) ELSE x

\* The call predecir_ml(...) of responder_pregunta with its arguments, and
\* the stages it runs.
LlamadaPredecir(g, sede_id, sector, hora, dia_semana, temperatura, ocupacion, sal) ==
    <<[ev |-> "predecir_completo", sede_id |-> sede_id, sector |-> sector, hora |-> hora,
       dia_semana |-> dia_semana, temperatura |-> temperatura, ocupacion |-> ocupacion]>>
    \o Cascada(g, sede_id, sector, hora, dia_semana, temperatura, ocupacion, sal)

\* What responder_pregunta works out of the question (lines 93-101).
Argumentos(pregunta, ahora) ==
    LET fh == extraer_fecha_hora(pregunta, ahora)
    IN  [sector |-> detectar_sector(pregunta), sede_id |-> extraer_sede(pregunta),
         fecha |-> fh[1], hora |-> fh[2], dia_semana |-> Weekday(fh[1])]

\* The call predecir_ml(...) of lines 113-120 and the stages it runs.
LlamadaDeResponder(pregunta, a, temperatura, ocupacion, g, sal) ==
    LlamadaPredecir(g, Ent(a.sede_id), Cad(a.sector), Ent(a.hora), Ent(a.dia_semana),
                    Ent(temperatura), Ent(ocupacion), sal)

\* Lines 97-169 of responder_pregunta: a is what lines 93-101 worked out,
\* temperatura and ocupacion are the two random draws, g the globals of
\* llm_engine and sal the outcomes of the models.  strftime's text is kept
\* as the day number; the answer text is kept as the values put in it.
Responder(pregunta, a, temperatura, ocupacion, g, sal) ==
    LET nombre_sede == SedesGet(Ent(a.sede_id))
        resultado == predecir_completo(g, Ent(a.sede_id), Cad(a.sector), Ent(a.hora),
                         Ent(a.dia_semana), Ent(temperatura), Ent(ocupacion), sal)
        falla == resultado.t = "exc"
        kwh == IF falla THEN Flo(150000)
               ELSE Float(DictGet(resultado.valor.d, "energia_kwh", Ent(0)))
        agua == IF falla THEN Flo(3000000)
                ELSE Float(DictGet(resultado.valor.d, "agua_litros", Ent(0)))
        co2 == IF falla THEN Flo(45000)
               ELSE Float(DictGet(resultado.valor.d, "co2_kg", Ent(0)))
        fecha_formateada == [fecha |-> a.fecha, dia_nombre |-> dias_es[Weekday(a.fecha) + 1]]
        respuesta_texto ==
            [sector |-> a.sector, nombre_sede |-> nombre_sede, fecha |-> fecha_formateada,
             hora |-> a.hora, kwh |-> kwh, agua |-> agua, co2 |-> co2,
             temperatura |-> temperatura, ocupacion |-> ocupacion]
    IN  Retorna(Dic([pregunta |-> pregunta, sector |-> a.sector, sede_id |-> a.sede_id,
                     sede_nombre |-> nombre_sede, fecha |-> fecha_formateada,
                     hora |-> a.hora, dia_semana |-> a.dia_semana,
                     temperatura |-> temperatura, ocupacion |-> ocupacion,
                     prediccion |-> [energia_kwh |-> kwh, agua_litros |-> agua, co2_kg |-> co2],
                     respuesta |-> respuesta_texto, respuesta_texto |-> respuesta_texto,
                     shap_graficos |-> None]))

\* def responder_pregunta(pregunta) for a text, on the day ahora.
responder_pregunta(pregunta, ahora, temperatura, ocupacion, g, sal) ==
    Responder(pregunta, Argumentos(pregunta, ahora), temperatura, ocupacion, g, sal)

\* def obtener_preguntas(): ids from 1.
obtener_preguntas ==
    [i \in 1..Len(PREGUNTAS_PREDEFINIDAS) |->
        [id |-> i, pregunta |-> PREGUNTAS_PREDEFINIDAS[i]]]

\* Other questions a caller may send.
OtrasPreguntas ==
    { <<"c", "o", "n", "s", "u", "m", "o", " ", "g", "e", "n", "e", "r",
        "a", "l">>,
      <<"S", "A", "L", "O'", "N", " ", "D", "E", " ", "L", "A", " ", "S",
        "E", "D", "E", " ", " ", "4", " ", "E", "L", " ", "M", "A", "R",
        "T", "E", "S", " ", "A", " ", "L", "A", "S", " ", "3", " ", "P",
        "M">>,
      <<"v", "i", "e", "r", "n", "e", "s", " ", "s", "e", "d", "e", "9",
        " ", "7", " ", "p", "m">>,
      <<"h", "o", "y", " ", "o", " ", "m", "a", "n~", "a", "n", "a", " ",
        "m", "a", "r", "t", "e", "s">>,
      <<"h", "o", "y", " ", "v", "i", "e", "r", "n", "e", "s">>,
      <<"m", "a", "r", "t", "e", "s", " ", "y", " ", "v", "i", "e", "r",
        "n", "e", "s">> }

Preguntas == {PREGUNTAS_PREDEFINIDAS[i] : i \in DOMAIN PREGUNTAS_PREDEFINIDAS} \cup OtrasPreguntas

-----------------------------------------------------------------------------
(* The state machine: the script scores df_global at module level, then    *)
(* the chatbot evaluates an event and formats the answer.                  *)

VARIABLES df_global, results, top_criticos, evento, resultado, previo, respuesta, pc,
          modelo_consumo, modelo_agua, modelo_co2, config_features,
          peticion, retorno, traza

\* The state of the prediction service (llm_engine.py, preguntas_predefinidas.py
\* and api.py): the four module globals of llm_engine, the call or request
\* being served, what it returned and the calls it made on the way.
vars_servicio ==
    <<modelo_consumo, modelo_agua, modelo_co2, config_features, peticion, retorno, traza>>

vars == <<df_global, results, top_criticos, evento, resultado, previo, respuesta, pc,
          modelo_consumo, modelo_agua, modelo_co2, config_features,
          peticion, retorno, traza>>

\* The state before the script runs on the table df.
Inicio(df) ==
    /\ df_global = df
    /\ results = << >>
    /\ top_criticos = Nada
    /\ evento = Nada
    /\ resultado = Nada
    /\ previo = Nada
    /\ respuesta = Nada
    /\ pc = "batch"
    /\ modelo_consumo = Nada /\ modelo_agua = Nada /\ modelo_co2 = Nada
    /\ config_features = Nada
    /\ peticion = Nada /\ retorno = Nada /\ traza = << >>

Init == \E df \in Tablas : Inicio(df)

\* Part 1, sections 1-6.
AnalisisBatch ==
    /\ pc = "batch"
    /\ results' = BatchResults(df_global)
    /\ df_global' = DfTrasBatch(df_global, results')
    /\ pc' = "chatbot"
    /\ UNCHANGED <<top_criticos, evento, resultado, previo, respuesta>>
    /\ UNCHANGED vars_servicio

\* Section 8: top_criticos = results[...].sort_values(...).head(10)[[...]]
TopCriticos ==
    /\ pc = "chatbot"
    /\ top_criticos = Nada
    /\ top_criticos' \in Extractos(Criticas(df_global, results), results, TopN)
    /\ UNCHANGED <<df_global, results, evento, resultado, previo, respuesta, pc>>
    /\ UNCHANGED vars_servicio

\* resultado = detectar_anomalia_evento(df_ref=df_global, ...)
DetectarAnomaliaEvento ==
    /\ pc = "chatbot"
    /\ \E ev \in Eventos :
        /\ evento' = ev
        /\ resultado' = detectar_anomalia_evento(df_global, ev.timestamp, ev.hora,
                            ev.consumo_kwh, ev.agua_litros, ev.co2_kg)
        /\ df_global' = DfTrasEvento(df_global, ev.hora, ev.consumo_kwh,
                                      ev.agua_litros, ev.co2_kg)
    /\ pc' = "evaluado"
    /\ UNCHANGED <<results, top_criticos, previo, respuesta>>
    /\ UNCHANGED vars_servicio

\* A chatbot session of two messages: the function is called once per
\* message, each call on the same df_global; previo keeps the first call.
ChatbotEvaluaEvento ==
    /\ pc \in {"chatbot", "evaluado"}
    /\ previo = Nada
    /\ \E ev \in EventosChat :
        /\ previo' = IF pc = "chatbot" THEN Nada
                     ELSE [evento |-> evento, resultado |-> resultado]
        /\ evento' = ev
        /\ resultado' = detectar_anomalia_evento(df_global, ev.timestamp, ev.hora,
                            ev.consumo_kwh, ev.agua_litros, ev.co2_kg)
        /\ df_global' = DfTrasEvento(df_global, ev.hora, ev.consumo_kwh,
                                      ev.agua_litros, ev.co2_kg)
    /\ pc' = "evaluado"
    /\ UNCHANGED <<results, top_criticos, respuesta>>
    /\ UNCHANGED vars_servicio

\* print(respuesta_chatbot(resultado))
RespuestaChatbot ==
    /\ pc = "evaluado"
    /\ resultado.t = "ok"
    /\ respuesta' = respuesta_chatbot(resultado.valor)
    /\ pc' = "respondido"
    /\ UNCHANGED <<df_global, results, top_criticos, evento, resultado, previo>>
    /\ UNCHANGED vars_servicio

\* resultado = detectar_anomalia_evento(df_ref=df_global, ...) on the
\* literal evento_usuario of the script.
DetectarEventoUsuario ==
    /\ pc = "chatbot"
    /\ evento' = evento_usuario
    /\ resultado' = detectar_anomalia_evento(df_global, evento_usuario.timestamp,
                        evento_usuario.hora, evento_usuario.consumo_kwh,
                        evento_usuario.agua_litros, evento_usuario.co2_kg)
    /\ df_global' = DfTrasEvento(df_global, evento_usuario.hora, evento_usuario.consumo_kwh,
                                  evento_usuario.agua_litros, evento_usuario.co2_kg)
    /\ pc' = "evaluado"
    /\ UNCHANGED <<results, top_criticos, previo, respuesta>>
    /\ UNCHANGED vars_servicio

Next == AnalisisBatch \/ DetectarAnomaliaEvento \/ RespuestaChatbot

\* The script as it stands: the batch pass, then evento_usuario is evaluated
\* and answered.
Spec == Init /\ [][Next]_vars

\* The batch pass and section 8 on tables of many small hour groups.
InitLote == \E df \in TablasLote : Inicio(df)
NextLote == AnalisisBatch \/ TopCriticos
SpecLote == InitLote /\ [][NextLote]_vars

\* The script on tables in real units, with its own evento_usuario.
InitEjemplo == \E df \in TablasEjemplo : Inicio(df)
NextEjemplo == AnalisisBatch \/ DetectarEventoUsuario \/ RespuestaChatbot
SpecEjemplo == InitEjemplo /\ [][NextEjemplo]_vars

\* The batch pass, then a chatbot session of repeated calls.
InitChat == \E df \in TablasChat : Inicio(df)
NextChat == AnalisisBatch \/ ChatbotEvaluaEvento
SpecChat == InitChat /\ [][NextChat]_vars

-----------------------------------------------------------------------------
(* The prediction service as a state machine: llm_engine is imported, which *)
(* loads the models, then a caller makes one call.                          *)

\* The feature lists config_features.pkl may hold (the file is not in the
\* repository): all three stages, stage 3 missing, or an empty dict.
ConfigCompleta ==
    Dic([features_stage1 |->
            <<"ocupacion_pct", "temperatura_exterior_c", "hora", "dia_semana", "sede_id",
              "sector_comedor", "sector_salon", "sector_laboratorio", "sector_auditorio",
              "sector_oficina">>,
         features_stage2 |-> <<"hora", "pred_consumo_kwh", "sector_comedor", "es_festivo">>,
         features_stage3 |-> <<"pred_consumo_kwh", "pred_agua_litros", "ocupacion_pct">>])
ConfigSinEtapa3 ==
    Dic([features_stage1 |-> <<"hora", "sede_id">>,
         features_stage2 |-> <<"pred_consumo_kwh", "pred_agua_litros">>])
Configs == {ConfigCompleta, ConfigSinEtapa3, Dic(<< >>)}

Globales(mc, ma, mo, cf) ==
    [modelo_consumo |-> mc, modelo_agua |-> ma, modelo_co2 |-> mo, config_features |-> cf]

\* The globals after lines 38-47: the four joblib.load calls run in order
\* inside one try, so the first that raises leaves its global and the later
\* ones at None.
Cargas ==
    LET objeto(n) == {Modelo(n), Vacio}
    IN  {Globales(None, None, None, None)}
        \cup {Globales(a, None, None, None) : a \in objeto("consumo")}
        \cup {Globales(a, b, None, None) : a \in objeto("consumo"), b \in objeto("agua")}
        \cup {Globales(a, b, c, None) :
                a \in objeto("consumo"), b \in objeto("agua"), c \in objeto("co2")}
        \cup {Globales(a, b, c, d) :
                a \in objeto("consumo"), b \in objeto("agua"), c \in objeto("co2"),
                d \in Configs}

\* The globals as one record.
G == Globales(modelo_consumo, modelo_agua, modelo_co2, config_features)

\* The state once llm_engine is imported with the load outcome g.
InicioServicio(g) ==
    /\ modelo_consumo = g.modelo_consumo
    /\ modelo_agua = g.modelo_agua
    /\ modelo_co2 = g.modelo_co2
    /\ config_features = g.config_features
    /\ peticion = Nada /\ retorno = Nada /\ traza = << >>
    /\ pc = "listo"
    /\ df_global = << >> /\ results = << >> /\ top_criticos = Nada
    /\ evento = Nada /\ resultado = Nada /\ previo = Nada /\ respuesta = Nada

vars_anomalias == <<df_global, results, top_criticos, evento, resultado, previo, respuesta>>
globales == <<modelo_consumo, modelo_agua, modelo_co2, config_features>>

\* What a model's predict may do on one call: two outputs in thousandths,
\* or an exception.
Salidas == {Retorna(Pred(1234565)), Retorna(Pred(30000125)), Lanza("ValueError")}
Salidas3 == [1..3 -> Salidas]

\* Outcomes of the three models for a chatbot question: all answer, or one
\* stage raises.
SalidasChat ==
    { <<Retorna(Pred(1234565)), Retorna(Pred(30000125)), Retorna(Pred(450004))>>,
      <<Lanza("ValueError"), Retorna(Pred(30000125)), Retorna(Pred(450004))>>,
      <<Retorna(Pred(1234565)), Lanza("ValueError"), Retorna(Pred(450004))>>,
      <<Retorna(Pred(1234565)), Retorna(Pred(30000125)), Lanza("ValueError")>> }

\* Arguments of a direct call of predecir_completo.
SedeIds == {Ent(1), Ent(4), Ent(9), Cad("tunja")}
SectoresPedidos == {Cad("Comedores"), Cad("General")}

\* Days datetime.now() may read: one of each weekday.
Dias == 0..6

\* Argumentos of every question and day of the model, worked out once.
ArgumentosDe == [p \in Preguntas, d \in Dias |-> Argumentos(p, d)]

\* A caller calls predecir_completo(...).
PredecirCompleto ==
    /\ pc = "listo"
    /\ \E sede_id \in SedeIds, sector \in SectoresPedidos, sal \in Salidas3 :
        /\ peticion' = [fn |-> "predecir_completo", sede_id |-> sede_id, sector |-> sector,
                        hora |-> Ent(12), dia_semana |-> Ent(1),
                        temperatura |-> Ent(24), ocupacion |-> Ent(75)]
        /\ retorno' = predecir_completo(G, sede_id, sector, Ent(12), Ent(1),
                                        Ent(24), Ent(75), sal)
        /\ traza' = LlamadaPredecir(G, sede_id, sector, Ent(12), Ent(1),
                                    Ent(24), Ent(75), sal)
    /\ pc' = "hecho"
    /\ UNCHANGED globales
    /\ UNCHANGED vars_anomalias

\* A caller calls responder_pregunta(pregunta) on a day ahora.
ResponderPregunta ==
    /\ pc = "listo"
    /\ \E pregunta \in Preguntas, ahora \in Dias :
        LET a == ArgumentosDe[pregunta, ahora]
        IN  \E temperatura \in Temperaturas(a.hora), ocupacion \in Ocupaciones(a.hora),
               sal \in SalidasChat :
              /\ peticion' = [fn |-> "responder_pregunta", pregunta |-> pregunta,
                              ahora |-> ahora]
              /\ retorno' = Responder(pregunta, a, temperatura, ocupacion, G, sal)
              /\ traza' = LlamadaDeResponder(pregunta, a, temperatura, ocupacion, G, sal)
    /\ pc' = "hecho"
    /\ UNCHANGED globales
    /\ UNCHANGED vars_anomalias

InitPrediccion == \E g \in Cargas : InicioServicio(g)
NextPrediccion == PredecirCompleto \/ ResponderPregunta
SpecPrediccion == InitPrediccion /\ [][NextPrediccion]_vars

-----------------------------------------------------------------------------
(* api.py: the POST endpoints.  A JSON string is Texto(c), c the sequence  *)
(* of its characters; a response is the JSON sent and its status.          *)

Texto(c) == [t |-> "texto", c |-> c]

\* return jsonify(json), status
Respuesta(json, status) == [t |-> "http", status |-> status, json |-> json]

\* request.get_json(): the parsed body; for a request without a JSON body
\* None or an HTTP error, depending on the version of Flask.
GetJson(cuerpo) ==
    IF cuerpo = Nada THEN {Retorna(None), Lanza("UnsupportedMediaType")}
    ELSE {Retorna(cuerpo)}

\* except Exception as e: return jsonify({"error": str(e)}), 500
Error500(e) == Respuesta(Dic([error |-> [str |-> e]]), 500)

\* Mutant of PreguntaDe: the 'pregunta' field is looked at first.
PreguntaDePrimeroTexto(data) ==
    IF data.t # "dict" THEN Lanza("TypeError")
    ELSE IF "pregunta" \in DOMAIN data.d THEN Retorna(data.d.pregunta)
    ELSE IF "pregunta_id" \in DOMAIN data.d
    THEN LET pregunta_id == data.d.pregunta_id
             hallados == {i \in DOMAIN obtener_preguntas :
                             Ent(obtener_preguntas[i].id) = pregunta_id}
         IN  IF hallados = {}
             THEN Respuesta(Dic([error |->
                      [plantilla |-> "Pregunta con ID {pregunta_id} no encontrada",
                       pregunta_id |-> pregunta_id]]), 404)
             ELSE Retorna(Texto(obtener_preguntas[CHOOSE i \in hallados :
                                    \A j \in hallados : i <= j].pregunta))
    ELSE Respuesta(Dic([error |-> "Se requiere 'pregunta_id' o 'pregunta'"]), 400)

\* Lines 201-217 of responder_pregunta_api: pregunta_texto, or the response
\* returned early, or the exception of `in` on a body that is no container.
PreguntaDe(data) ==
    IF data.t # "dict" THEN Lanza("TypeError")
    ELSE IF "pregunta_id" \in DOMAIN data.d
    THEN LET pregunta_id == data.d.pregunta_id
             hallados == {i \in DOMAIN obtener_preguntas :
                             Ent(obtener_preguntas[i].id) = pregunta_id}
         IN  IF hallados = {}
             THEN Respuesta(Dic([error |->
                      [plantilla |-> "Pregunta con ID {pregunta_id} no encontrada",
                       pregunta_id |-> pregunta_id]]), 404)
             ELSE Retorna(Texto(obtener_preguntas[CHOOSE i \in hallados :
                                    \A j \in hallados : i <= j].pregunta))
    ELSE IF "pregunta" \in DOMAIN data.d THEN Retorna(data.d.pregunta)
    ELSE Respuesta(Dic([error |-> "Se requiere 'pregunta_id' o 'pregunta'"]), 400)

\* required
required == <<"sede_id", "sector", "hora", "dia_semana", "temperatura", "ocupacion">>

\* Mutant of Validar: the last missing parameter is named.
ValidarUltimo(data) ==
    IF data.t # "dict" THEN Lanza("TypeError")
    ELSE LET faltan == {i \in DOMAIN required : required[i] \notin DOMAIN data.d}
         IN  IF faltan = {} THEN Retorna(data.d)
             ELSE Respuesta(Dic([error |->
                      [plantilla |-> "Parametro '{param}' requerido",
                       param |-> required[CHOOSE i \in faltan : \A j \in faltan : i >= j]]]),
                      400)

\* for param in required: if param not in data: return ..., 400
Validar(data) ==
    IF data.t # "dict" THEN Lanza("TypeError")
    ELSE LET faltan == {i \in DOMAIN required : required[i] \notin DOMAIN data.d}
         IN  IF faltan = {} THEN Retorna(data.d)
             ELSE Respuesta(Dic([error |->
                      [plantilla |-> "Parametro '{param}' requerido",
                       param |-> required[CHOOSE i \in faltan : \A j \in faltan : i <= j]]]),
                      400)

\* def generar_shap_graficos(...) of llm_engine.py: SHAP cannot be imported,
\* or a chart per model that is not None, or the message of what was raised
\* on the way; shap is which of the three happens.
generar_shap_graficos(g, shap) ==
    IF shap = "no disponible"
    THEN Dic([error |-> "SHAP no disponible",
              mensaje |-> "Instala SHAP con: pip install shap"])
    ELSE IF shap = "error" THEN Dic([error |-> [str |-> "e"]])
    ELSE LET claves == (IF g.modelo_consumo # None THEN {"consumo_energia"} ELSE {})
                       \cup (IF g.modelo_agua # None THEN {"consumo_agua"} ELSE {})
                       \cup (IF g.modelo_co2 # None THEN {"emisiones_co2"} ELSE {})
         IN  Dic([k \in claves |-> [imagen_base64 |-> k, modelo |-> k]])

\* The call generar_shap_graficos(...) as recorded in the trace, with what
\* it returned.
LlamadaShap(d, shap_graficos) ==
    <<[ev |-> "generar_shap_graficos", sede_id |-> d.sede_id, sector |-> d.sector,
       hora |-> d.hora, dia_semana |-> d.dia_semana, temperatura |-> d.temperatura,
       ocupacion |-> d.ocupacion, devuelve |-> shap_graficos]>>

\* Bodies sent to /api/responder-pregunta; Nada is a request without JSON.
CuerposPregunta ==
    {Nada, Dic(<< >>), Dic([otro |-> Ent(1)])}
    \cup {Dic([pregunta_id |-> v]) :
            v \in {Ent(i) : i \in 0..6} \cup {Cad("3"), None}}
    \cup {Dic([pregunta_id |-> v, pregunta |-> Texto(PREGUNTAS_PREDEFINIDAS[1])]) :
            v \in {Ent(5), Ent(7)}}
    \cup {Dic([pregunta |-> v]) :
            v \in {Texto(PREGUNTAS_PREDEFINIDAS[4]), Texto(<<"c", "o", "n", "s", "u", "m", "o", " ", "g", "e", "n", "e", "r", "a", "l">>), Ent(5)}}

\* Bodies sent to the prediction endpoints: every subset of the required
\* parameters, with or without one more field, and a null sector.
CuerpoCompleto ==
    [sede_id |-> Ent(1), sector |-> Cad("Comedores"), hora |-> Ent(12),
     dia_semana |-> Ent(1), temperatura |-> Ent(24), ocupacion |-> Ent(75)]
CuerposPrediccion ==
    {Nada, Dic([CuerpoCompleto EXCEPT !.sector = None]),
     Dic([CuerpoCompleto EXCEPT !.sede_id = Ent(9)])}
    \cup {Dic([k \in claves |-> CuerpoCompleto[k]]) : claves \in SUBSET DOMAIN CuerpoCompleto}
    \cup {Dic([k \in claves \cup {"otro"} |->
                 IF k = "otro" THEN Ent(1) ELSE CuerpoCompleto[k]]) :
            claves \in {{}, {"sede_id", "hora"}, DOMAIN CuerpoCompleto}}

\* POST /api/responder-pregunta
ResponderPreguntaApi ==
    /\ pc = "listo"
    /\ \E cuerpo \in CuerposPregunta, ahora \in {1, 4} :
       \E data \in GetJson(cuerpo) :
        /\ peticion' = [fn |-> "POST /api/responder-pregunta", cuerpo |-> cuerpo,
                        ahora |-> ahora]
        /\ LET p == IF data.t = "exc" THEN data ELSE PreguntaDe(data.valor)
           IN  IF p.t = "http" THEN retorno' = p /\ traza' = << >>
               ELSE IF p.t = "exc" THEN retorno' = Error500(p.exc) /\ traza' = << >>
               ELSE IF p.valor.t # "texto"
               THEN /\ retorno' = Error500("AttributeError")
                    /\ traza' = <<[ev |-> "responder_pregunta", pregunta |-> p.valor]>>
               ELSE LET a == ArgumentosDe[p.valor.c, ahora]
                    IN  \E temperatura \in Temperaturas(a.hora),
                           ocupacion \in Ocupaciones(a.hora), sal \in SalidasChat :
                          /\ retorno' = Respuesta(
                                 Responder(p.valor.c, a, temperatura, ocupacion, G, sal).valor,
                                 200)
                          /\ traza' = <<[ev |-> "responder_pregunta", pregunta |-> p.valor]>>
                                      \o LlamadaDeResponder(p.valor.c, a, temperatura,
                                                            ocupacion, G, sal)
    /\ pc' = "hecho"
    /\ UNCHANGED globales
    /\ UNCHANGED vars_anomalias

\* POST /api/predecir
PredecirApi ==
    /\ pc = "listo"
    /\ \E cuerpo \in CuerposPrediccion, sal \in SalidasChat :
       \E data \in GetJson(cuerpo) :
        /\ peticion' = [fn |-> "POST /api/predecir", cuerpo |-> cuerpo]
        /\ LET v == IF data.t = "exc" THEN data ELSE Validar(data.valor)
           IN  IF v.t = "http" THEN retorno' = v /\ traza' = << >>
               ELSE IF v.t = "exc" THEN retorno' = Error500(v.exc) /\ traza' = << >>
               ELSE LET d == v.valor
                    IN  /\ retorno' = Respuesta(
                               predecir_completo(G, d.sede_id, d.sector, d.hora, d.dia_semana,
                                                 d.temperatura, d.ocupacion, sal).valor, 200)
                        /\ traza' = LlamadaPredecir(G, d.sede_id, d.sector, d.hora,
                                        d.dia_semana, d.temperatura, d.ocupacion, sal)
    /\ pc' = "hecho"
    /\ UNCHANGED globales
    /\ UNCHANGED vars_anomalias

\* POST /api/predecir-con-shap
PredecirConShap ==
    /\ pc = "listo"
    /\ \E cuerpo \in CuerposPrediccion, sal \in SalidasChat,
          shap \in {"no disponible", "error", "graficos"} :
       \E data \in GetJson(cuerpo) :
        /\ peticion' = [fn |-> "POST /api/predecir-con-shap", cuerpo |-> cuerpo]
        /\ LET v == IF data.t = "exc" THEN data ELSE Validar(data.valor)
           IN  IF v.t = "http" THEN retorno' = v /\ traza' = << >>
               ELSE IF v.t = "exc" THEN retorno' = Error500(v.exc) /\ traza' = << >>
               ELSE LET d == v.valor
                        resultado_ == predecir_completo(G, d.sede_id, d.sector, d.hora,
                                          d.dia_semana, d.temperatura, d.ocupacion, sal).valor
                        shap_graficos == generar_shap_graficos(G, shap)
                    IN  /\ retorno' = Respuesta(
                               Dic(("shap_graficos" :> shap_graficos) @@ resultado_.d), 200)
                        /\ traza' = LlamadaPredecir(G, d.sede_id, d.sector, d.hora,
                                        d.dia_semana, d.temperatura, d.ocupacion, sal)
                                    \o LlamadaShap(d, shap_graficos)
    /\ pc' = "hecho"
    /\ UNCHANGED globales
    /\ UNCHANGED vars_anomalias

\* POST /api/generar-shap
GenerarShapEndpoint ==
    /\ pc = "listo"
    /\ \E cuerpo \in CuerposPrediccion,
          shap \in {"no disponible", "error", "graficos"} :
       \E data \in GetJson(cuerpo) :
        /\ peticion' = [fn |-> "POST /api/generar-shap", cuerpo |-> cuerpo]
        /\ LET v == IF data.t = "exc" THEN data ELSE Validar(data.valor)
           IN  IF v.t = "http" THEN retorno' = v /\ traza' = << >>
               ELSE IF v.t = "exc" THEN retorno' = Error500(v.exc) /\ traza' = << >>
               ELSE LET shap_graficos == generar_shap_graficos(G, shap)
                    IN  /\ retorno' = Respuesta(Dic([shap_graficos |-> shap_graficos]), 200)
                        /\ traza' = LlamadaShap(v.valor, shap_graficos)
    /\ pc' = "hecho"
    /\ UNCHANGED globales
    /\ UNCHANGED vars_anomalias

NextApi == ResponderPreguntaApi \/ PredecirApi \/ PredecirConShap \/ GenerarShapEndpoint
SpecApi == InitPrediccion /\ [][NextApi]_vars

-----------------------------------------------------------------------------
(* Properties.                                                             *)

Evaluado == pc \in {"evaluado", "respondido"}

\* Rows of df whose hora is h, counted without the model's filter.
FilasDeHora(df, h) == SumaDe(df, {r \in DOMAIN df : r.hora = h})

\* The insufficient-data result: nivel 'Normal' and mensaje, nothing else.
EsDegradado(res) ==
    /\ res.t = "ok"
    /\ DOMAIN res.valor = {"nivel", "mensaje"}
    /\ res.valor.nivel = "Normal"

\* A full classification.
EsCompleto(res) ==
    /\ res.t = "ok"
    /\ DOMAIN res.valor = {"timestamp", "nivel", "percentil", "score", "explicacion"}

Senales(ev) == {ev.consumo_kwh, ev.agua_litros, ev.co2_kg}
SinNone(ev) == \A x \in Senales(ev) : x.t # "none"
TodasEnteras(ev) == \A x \in Senales(ev) : x.t = "int"

\* C1: with fewer than 50 rows of the candidate's hour the call never raises
\* and returns the degraded result (nivel 'Normal' and mensaje only),
\* whatever the candidate's signal values.
C1_ContextoInsuficienteDegradado ==
    (Evaluado /\ FilasDeHora(df_global, evento.hora) < 50)
        => EsDegradado(resultado)

C1_Testigo ==
    /\ Evaluado
    /\ FilasDeHora(df_global, evento.hora) = 49
    /\ evento.consumo_kwh.t = "none"
    /\ EsDegradado(resultado)

\* C2: for a candidate whose signals are numbers, exactly 49 rows of its hour
\* give the insufficient-data result and exactly 50 give a full
\* classification; rows of other hours do not count.
C2_FronteraContexto ==
    (Evaluado /\ SinNone(evento)) =>
        /\ FilasDeHora(df_global, evento.hora) = 49 => EsDegradado(resultado)
        /\ FilasDeHora(df_global, evento.hora) = 50 => EsCompleto(resultado)

C2_Testigo ==
    /\ Evaluado
    /\ FilasDeHora(df_global, evento.hora) = 50
    /\ Filas(df_global) > 50
    /\ EsCompleto(resultado)

\* p >= c / 100 on a percentile (false on NaN).
FracMayorIgual(p, c) == ~EsNaN(p) /\ 100 * p.num >= c * p.den

\* C3: in the batch results and in every full event result the tier is Normal
\* exactly when percentile < 0.90, Alerta exactly when 0.90 <= percentile <
\* 0.97 and Critica exactly when percentile >= 0.97 (batch rows are taken
\* from hour groups of at least 50 rows).
C3_UmbralesDeNivel ==
    /\ pc # "batch" =>
        \A r \in {r \in DOMAIN results : FilasDeHora(df_global, r.hora) >= 50} :
            LET p == results[r].anomalia_percentil
                nv == results[r].nivel_anomalia
            IN  /\ nv = "Normal" <=> FracMenor(p, 90)
                /\ nv = "Alerta" <=> (FracMayorIgual(p, 90) /\ FracMenor(p, 97))
                /\ nv = "Critica" <=> FracMayorIgual(p, 97)
    /\ (Evaluado /\ EsCompleto(resultado)) =>
        LET p == resultado.valor.percentil
            nv == resultado.valor.nivel
        IN  /\ nv = "Normal" <=> p < 9000
            /\ nv = "Alerta" <=> (9000 <= p /\ p < 9700)
            /\ nv = "Critica" <=> p >= 9700

\* The weighted raw score of signal values e, w, c against the rows of the
\* table at hour h, by the formula of the spec (4.1, 4.2).
RawEnContexto(df, h, e, w, c) ==
    LET ctx == FiltrarHora(df, h)
    IN  ScorePonderado(ZRobusto(e, Mediana4(ctx, "consumo_kwh"), Iqr4(ctx, "consumo_kwh")),
                       ZRobusto(w, Mediana4(ctx, "agua_litros"), Iqr4(ctx, "agua_litros")),
                       ZRobusto(c, Mediana4(ctx, "co2_kg"), Iqr4(ctx, "co2_kg")))

\* The candidate's raw score: NaN as soon as one signal is NaN.
RawDelEvento(df, ev) ==
    IF TodasEnteras(ev)
    THEN RawEnContexto(df, ev.hora, ev.consumo_kwh.v, ev.agua_litros.v, ev.co2_kg.v)
    ELSE NaN

\* Historical rows of the event's hour whose raw score is strictly less than
\* (resp. equal to) the candidate's.
FilasMenores(df, ev) ==
    SumaDe(df, {h \in DOMAIN df :
        /\ h.hora = ev.hora
        /\ Menor(RawEnContexto(df, h.hora, h.consumo_kwh, h.agua_litros, h.co2_kg),
                 RawDelEvento(df, ev))})

FilasIguales(df, ev) ==
    SumaDe(df, {h \in DOMAIN df :
        /\ h.hora = ev.hora
        /\ Igual(RawEnContexto(df, h.hora, h.consumo_kwh, h.agua_litros, h.co2_kg),
                 RawDelEvento(df, ev))})

\* C4: the percentile of a full event result is the fraction of historical
\* rows of the same hour whose raw score is strictly less than the
\* candidate's (times 100, two decimals); rows with an equal raw score are
\* not counted.
C4_PercentilEstricto ==
    (Evaluado /\ EsCompleto(resultado)) =>
        resultado.valor.percentil =
            RedondearPct(Frac(FilasMenores(df_global, evento),
                              FilasDeHora(df_global, evento.hora)))

C4_Testigo ==
    /\ Evaluado
    /\ EsCompleto(resultado)
    /\ FilasMenores(df_global, evento) > 0
    /\ FilasIguales(df_global, evento) > 0

\* C5: for every row r of an hour group of at least 50 rows, the raw score the
\* batch path stores for r equals the raw score the event path computes for
\* a candidate with r's hour and signal values, also when a signal has
\* IQR = 0 in that hour.
C5_MismaFormula ==
    pc # "batch" =>
        \A r \in DOMAIN df_global :
            FilasDeHora(df_global, r.hora) >= 50 =>
                LET ctx == FiltrarHora(df_global, r.hora)
                    zc == score_robusto(Ent(r.consumo_kwh), ctx, "consumo_kwh")
                    za == score_robusto(Ent(r.agua_litros), ctx, "agua_litros")
                    zo == score_robusto(Ent(r.co2_kg), ctx, "co2_kg")
                IN  Igual(results[r].anomalia_score_raw,
                          ScoreRawEvento(zc.valor, za.valor, zo.valor))

\* Some signal has IQR = 0 among the rows of df at hour h.
IqrCero(df, h) ==
    \E i \in 1..3 : Iqr4(FiltrarHora(df, h), variables[i]) = 0

\* C6: when a signal's IQR is 0 in an hour context of at least 50 rows, every
\* deviation, the raw score, the percentile and the tier are still defined:
\* no NaN appears in the batch results nor in a full event result of a
\* numeric candidate.
C6_IqrCeroSinNaN ==
    /\ pc # "batch" =>
        \A r \in {r \in DOMAIN results : FilasDeHora(df_global, r.hora) >= 50} :
            IqrCero(df_global, r.hora) =>
                /\ ~EsNaN(results[r].consumo_kwh_z)
                /\ ~EsNaN(results[r].agua_litros_z)
                /\ ~EsNaN(results[r].co2_kg_z)
                /\ ~EsNaN(results[r].anomalia_score_raw)
                /\ ~EsNaN(results[r].anomalia_score)
                /\ ~EsNaN(results[r].anomalia_percentil)
    /\ (Evaluado /\ EsCompleto(resultado) /\ TodasEnteras(evento)
            /\ IqrCero(df_global, evento.hora)) =>
        ~EsNaN(resultado.valor.score)

\* Every signal of the reading [hora h, e, w, c] equals the median of that
\* signal among the rows of df at hour h.
EnLaMediana(df, h, e, w, c) ==
    LET ctx == FiltrarHora(df, h)
    IN  /\ 4 * e = Mediana4(ctx, "consumo_kwh")
        /\ 4 * w = Mediana4(ctx, "agua_litros")
        /\ 4 * c = Mediana4(ctx, "co2_kg")

\* C7: a reading whose three signals equal the medians of its hour context
\* (of at least 50 rows) has every deviation 0, raw score 0 and final score
\* 0, in the batch path and in the event path, whatever the spread of the
\* context.
C7_MedianaPuntuaCero ==
    /\ pc # "batch" =>
        \A r \in {r \in DOMAIN results : FilasDeHora(df_global, r.hora) >= 50} :
            EnLaMediana(df_global, r.hora, r.consumo_kwh, r.agua_litros, r.co2_kg) =>
                /\ ZEsCero(results[r].consumo_kwh_z)
                /\ ZEsCero(results[r].agua_litros_z)
                /\ ZEsCero(results[r].co2_kg_z)
                /\ EsCero(results[r].anomalia_score_raw)
                /\ Log1pEsCero(results[r].anomalia_score)
    /\ (Evaluado /\ EsCompleto(resultado) /\ TodasEnteras(evento)
            /\ EnLaMediana(df_global, evento.hora, evento.consumo_kwh.v,
                           evento.agua_litros.v, evento.co2_kg.v)) =>
        /\ ~EsNaN(resultado.valor.score)
        /\ Log1pEsCero(resultado.valor.score.de)

\* C8: a candidate with a None or NaN signal, evaluated against a context of
\* at least 50 rows, ends in an error and never in a classification.
C8_SenalNulaFalla ==
    (Evaluado /\ FilasDeHora(df_global, evento.hora) >= 50
        /\ \E x \in Senales(evento) : x.t \in {"none", "nan"})
        => resultado.t = "exc"

\* C9: a candidate with numeric signals whose hora is outside 0..23 ends in
\* an error, not in the insufficient-data result nor in any classification.
C9_HoraInvalidaFalla ==
    (Evaluado /\ TodasEnteras(evento) /\ evento.hora \notin 0..23)
        => resultado.t = "exc"

\* C10: respuesta_chatbot renders every result detectar_anomalia_evento
\* returns for a valid candidate (numeric signals, hora in 0..23), the
\* insufficient-data result included, without raising.
C10_RespuestaSinError ==
    (pc = "respondido" /\ TodasEnteras(evento) /\ evento.hora \in 0..23)
        => respuesta.t = "ok"


\* Two calls of the session have been made, both ending in a result.
DosLlamadas == pc = "evaluado" /\ previo # Nada

DosCompletas ==
    DosLlamadas /\ EsCompleto(previo.resultado) /\ EsCompleto(resultado)

\* Severity order of the tiers.
Severidad(nivel) ==
    CASE nivel = "Normal" -> 0
      [] nivel = "Alerta" -> 1
      [] nivel = "Critica" -> 2

\* C11: for two candidates evaluated against the same table, if the raw
\* score of the first is strictly larger than the raw score of the second,
\* the percentile returned for the first is >= the percentile returned for
\* the second and its tier is at least as severe.
C11_PercentilMonotono ==
    (DosCompletas /\ previo.evento.hora = evento.hora
        /\ Mayor(RawDelEvento(df_global, previo.evento), RawDelEvento(df_global, evento))) =>
        /\ previo.resultado.valor.percentil >= resultado.valor.percentil
        /\ Severidad(previo.resultado.valor.nivel) >= Severidad(resultado.valor.nivel)

C11_Testigo ==
    /\ DosCompletas
    /\ Mayor(RawDelEvento(df_global, previo.evento), RawDelEvento(df_global, evento))
    /\ previo.resultado.valor.percentil > resultado.valor.percentil
    /\ resultado.valor.percentil > 0
    /\ Severidad(previo.resultado.valor.nivel) > Severidad(resultado.valor.nivel)


\* The deviation of the candidate's signal var from the median of its hour
\* context, |valor - mediana| / (IQR + 1e-6), is strictly greater than 3
\* (false for a NaN signal).
DesviacionMayorQue3(df, ev, var) ==
    /\ ev[var].t = "int"
    /\ LET ctx == [r \in {r \in DOMAIN df : r.hora = ev.hora} |-> df[r]]
       IN  Abs(4 * ev[var].v - Mediana4(ctx, var)) * EpsInv
               > 3 * (Iqr4(ctx, var) * EpsInv + 4)

Contiene(lista, x) == \E i \in DOMAIN lista : lista[i] = x

\* C12: in a full event result the cause string of a signal is in
\* explicacion exactly when that signal's deviation is strictly greater than
\* 3; when only the energy deviation is, explicacion is the single energy
\* cause.
C12_CausaPorSenal ==
    (pc = "evaluado" /\ EsCompleto(resultado)) =>
        LET ex == resultado.valor.explicacion
            dc == DesviacionMayorQue3(df_global, evento, "consumo_kwh")
            da == DesviacionMayorQue3(df_global, evento, "agua_litros")
            do == DesviacionMayorQue3(df_global, evento, "co2_kg")
        IN  /\ Contiene(ex, "consumo energetico inusualmente alto") <=> dc
            /\ Contiene(ex, "consumo de agua fuera de lo normal") <=> da
            /\ Contiene(ex, "emisiones de CO2 elevadas") <=> do
            /\ (dc /\ ~da /\ ~do) => ex = <<"consumo energetico inusualmente alto">>

C12_Testigo ==
    /\ Evaluado
    /\ EsCompleto(resultado)
    /\ DesviacionMayorQue3(df_global, evento, "consumo_kwh")
    /\ ~DesviacionMayorQue3(df_global, evento, "agua_litros")
    /\ evento.agua_litros.t = "int"
    /\ 4 * evento.agua_litros.v # Mediana4(FiltrarHora(df_global, evento.hora), "agua_litros")
    /\ ~DesviacionMayorQue3(df_global, evento, "co2_kg")
    /\ resultado.valor.explicacion = <<"consumo energetico inusualmente alto">>

\* C13: in a full event result, when no deviation exceeds 3 and the tier is
\* Alerta or Critica, explicacion is the single combined cause; the combined
\* cause never stands beside a per-signal cause.
C13_CausaCombinada ==
    (pc = "evaluado" /\ EsCompleto(resultado)) =>
        LET ex == resultado.valor.explicacion
            ninguna == \A i \in 1..3 : ~DesviacionMayorQue3(df_global, evento, variables[i])
        IN  /\ (ninguna /\ resultado.valor.nivel \in {"Alerta", "Critica"})
                  => ex = <<"comportamiento combinado atipico">>
            /\ Contiene(ex, "comportamiento combinado atipico")
                  => ex = <<"comportamiento combinado atipico">>

C13_Testigo ==
    /\ Evaluado
    /\ EsCompleto(resultado)
    /\ TodasEnteras(evento)
    /\ \A i \in 1..3 : ~DesviacionMayorQue3(df_global, evento, variables[i])
    /\ resultado.valor.nivel = "Critica"
    /\ resultado.valor.explicacion = <<"comportamiento combinado atipico">>

\* A reported score that is a number >= 0.
ScoreNoNegativo(s) ==
    /\ ~EsNaN(s)
    /\ \A i \in 1..3 : s.de.de.c[i] >= 0

\* C14: every full result has nivel in {Normal, Alerta, Critica}, percentil
\* within 0..100, a score >= 0 and a non-empty explicacion.
C14_ResultadoCompletoValido ==
    (Evaluado /\ EsCompleto(resultado)) =>
        /\ resultado.valor.nivel \in {"Normal", "Alerta", "Critica"}
        /\ resultado.valor.percentil \in 0..10000
        /\ ScoreNoNegativo(resultado.valor.score)
        /\ Len(resultado.valor.explicacion) > 0


\* The batch pass has run and section 8 has not.
TrasBatch == pc = "chatbot" /\ top_criticos = Nada

\* C15: no tier is computed from fewer than 50 readings: an event whose hour
\* context holds fewer than 50 rows gets the insufficient-data result, and a
\* row of an hour group of fewer than 50 rows gets no tier other than
\* 'Normal' from the batch pass.
C15_SinNivelBajo50 ==
    /\ (Evaluado /\ FilasDeHora(df_global, evento.hora) < 50) => EsDegradado(resultado)
    /\ pc # "batch" =>
        \A r \in DOMAIN results :
            FilasDeHora(df_global, r.hora) < 50 => results[r].nivel_anomalia = "Normal"

\* The rows of df at hour h alone.
SoloHora(df, h) == [r \in {r \in DOMAIN df : r.hora = h} |-> df[r]]

\* C18: the derived columns of a row with hora = h (deviations, raw score,
\* score, percentile, tier) are those the batch pass gives it on the table
\* reduced to the rows of hour h, so they do not depend on the rows of the
\* other hours.
C18_HorasIndependientes ==
    TrasBatch =>
        \A h \in {r.hora : r \in DOMAIN df_global} :
            LET solo == BatchResults(SoloHora(df_global, h))
            IN  \A r \in DOMAIN solo : results[r] = solo[r]

C18_Testigo ==
    /\ TrasBatch
    /\ \E r \in DOMAIN results :
        /\ results[r].nivel_anomalia = "Alerta"
        /\ Filas(df_global) > FilasDeHora(df_global, r.hora)
        /\ results[r] = BatchResults(SoloHora(df_global, r.hora))[r]
        /\ \E x \in DOMAIN results :
            /\ x.hora # r.hora
            /\ Mayor(results[x].anomalia_score_raw, results[r].anomalia_score_raw)


\* The table row an entry of top_criticos was taken from.
FilaDe(e) == Fila(e.hora, e.consumo_kwh, e.agua_litros, e.co2_kg)

\* Number of entries of the extract taken from the row r.
VecesEn(extracto, r) == Cardinality({i \in DOMAIN extracto : FilaDe(extracto[i]) = r})

\* Rows of `results` labelled 'Critica', and how many there are.
FilasCriticas == {r \in DOMAIN results : results[r].nivel_anomalia = "Critica"}
NumCriticas == SumaDe(df_global, FilasCriticas)

\* C19: the top extract holds only rows whose tier is Critica, each no more
\* often than the table holds it, has min(10, number of Critica rows)
\* entries, never lists a smaller raw score before a larger one, and no
\* Critica row left out has a raw score strictly greater than an entry.
C19_TopCriticos ==
    top_criticos # Nada =>
        /\ \A i \in DOMAIN top_criticos :
            /\ FilaDe(top_criticos[i]) \in FilasCriticas
            /\ VecesEn(top_criticos, FilaDe(top_criticos[i])) <= df_global[FilaDe(top_criticos[i])]
            /\ top_criticos[i].anomalia_score_raw
                   = results[FilaDe(top_criticos[i])].anomalia_score_raw
        /\ Len(top_criticos) = (IF NumCriticas < 10 THEN NumCriticas ELSE 10)
        /\ \A i, j \in DOMAIN top_criticos :
            i < j => ~Menor(top_criticos[i].anomalia_score_raw,
                            top_criticos[j].anomalia_score_raw)
        /\ \A r \in FilasCriticas :
            VecesEn(top_criticos, r) < df_global[r] =>
                \A i \in DOMAIN top_criticos :
                    ~Mayor(results[r].anomalia_score_raw, top_criticos[i].anomalia_score_raw)

\* More than ten Critica rows with a number as raw score, of hour groups
\* with different IQRs; one of them is left out of the extract.
C19_Testigo ==
    /\ top_criticos # Nada
    /\ Len(top_criticos) = 10
    /\ \A i \in DOMAIN top_criticos : ~EsNaN(top_criticos[i].anomalia_score_raw)
    /\ \E i, j \in DOMAIN top_criticos :
        /\ top_criticos[i].anomalia_score_raw.q # top_criticos[j].anomalia_score_raw.q
        /\ Mayor(top_criticos[i].anomalia_score_raw, top_criticos[j].anomalia_score_raw)
    /\ \E r \in FilasCriticas :
        /\ VecesEn(top_criticos, r) = 0
        /\ ~EsNaN(results[r].anomalia_score_raw)


C20_FormatoPorNivel ==
    (pc = "respondido" /\ TodasEnteras(evento) /\ evento.hora \in 0..23) =>
        /\ respuesta.t = "ok"
        /\ resultado.valor.nivel = "Normal" =>
            /\ respuesta.valor.plantilla = "normal"
            /\ DOMAIN respuesta.valor = {"plantilla", "timestamp"}
        /\ resultado.valor.nivel \in {"Alerta", "Critica"} =>
            /\ respuesta.valor.plantilla =
                (IF resultado.valor.nivel = "Alerta" THEN "alerta" ELSE "critica")
            /\ respuesta.valor.causas = resultado.valor.explicacion
            /\ respuesta.valor.percentil = resultado.valor.percentil

\* One deviation, the i-th of its hour context, as a score of that context
\* (weight 1 on signal i), so that it compares with a weighted score.
ComoScore(z, i, q) ==
    Lin(<<IF i = 1 THEN 100 * z.a ELSE 0, IF i = 2 THEN 100 * z.a ELSE 0,
          IF i = 3 THEN 100 * z.a ELSE 0>>, q)

\* 0.40 * zc + 0.35 * za + 0.25 * zo.
SumaPesada(zc, za, zo) ==
    Lin(<<40 * zc.a, 35 * za.a, 25 * zo.a>>, <<zc.q, za.q, zo.q>>)

\* raw is not below the smallest nor above the largest of the deviations.
EntreExtremos(raw, zc, za, zo) ==
    LET d == <<ComoScore(zc, 1, raw.q), ComoScore(za, 2, raw.q), ComoScore(zo, 3, raw.q)>>
    IN  /\ \E i \in 1..3 : ~Mayor(d[i], raw)
        /\ \E i \in 1..3 : ~Menor(d[i], raw)

\* raw is the weighted sum of the three deviations (NaN when one of them is)
\* and lies between their extremes.
EsSumaPesada(raw, zc, za, zo) ==
    IF EsNaN(zc) \/ EsNaN(za) \/ EsNaN(zo) THEN EsNaN(raw)
    ELSE /\ ~EsNaN(raw)
         /\ Igual(raw, SumaPesada(zc, za, zo))
         /\ EntreExtremos(raw, zc, za, zo)

\* The deviation of value v in column var of the context ctx, by the formula.
DesviacionDe(ctx, var, v) == ZRobusto(v, Mediana4(ctx, var), Iqr4(ctx, var))

\* The raw score under the rounded log score of a full result.
RawDeResultado(res) == res.valor.score.de.de

\* C22: the raw score is 0.40 * energy + 0.35 * water + 0.25 * CO2 deviation,
\* the weights summing to 1.0, in the batch pass, for the candidate of the
\* event path and for the historical scores of the event path; so the raw
\* score is never below the smallest nor above the largest of the three
\* deviations.
C22_PesosDelScore ==
    /\ PesoConsumo + PesoAgua + PesoCO2 = 100
    /\ <<PesoConsumo, PesoAgua, PesoCO2>> = <<40, 35, 25>>
    /\ pc = "chatbot" =>
        /\ \A r \in DOMAIN results :
              EsSumaPesada(results[r].anomalia_score_raw, results[r].consumo_kwh_z,
                           results[r].agua_litros_z, results[r].co2_kg_z)
        /\ LET ctx == FiltrarHora(df_global, HoraContexto)
               hist == ScoresHist(ctx)
           IN  \A h \in DOMAIN ctx :
                  EsSumaPesada(hist[h], DesviacionDe(ctx, "consumo_kwh", h.consumo_kwh),
                               DesviacionDe(ctx, "agua_litros", h.agua_litros),
                               DesviacionDe(ctx, "co2_kg", h.co2_kg))
    /\ (pc = "evaluado" /\ EsCompleto(resultado) /\ TodasEnteras(evento)) =>
        LET ctx == FiltrarHora(df_global, evento.hora)
        IN  EsSumaPesada(RawDeResultado(resultado),
                         DesviacionDe(ctx, "consumo_kwh", evento.consumo_kwh.v),
                         DesviacionDe(ctx, "agua_litros", evento.agua_litros.v),
                         DesviacionDe(ctx, "co2_kg", evento.co2_kg.v))

\* A candidate with three different deviations: the raw score is strictly
\* between the smallest and the largest.
C22_Testigo ==
    /\ pc = "evaluado" /\ EsCompleto(resultado) /\ TodasEnteras(evento)
    /\ LET ctx == FiltrarHora(df_global, evento.hora)
           raw == RawDeResultado(resultado)
           zc == DesviacionDe(ctx, "consumo_kwh", evento.consumo_kwh.v)
           za == DesviacionDe(ctx, "agua_litros", evento.agua_litros.v)
           zo == DesviacionDe(ctx, "co2_kg", evento.co2_kg.v)
       IN  /\ Menor(ComoScore(zc, 1, raw.q), raw)
           /\ Mayor(ComoScore(zo, 3, raw.q), raw)
           /\ Igual(raw, SumaPesada(zc, za, zo))
           /\ \E r \in DOMAIN results : ~EsNaN(results[r].anomalia_score_raw)

\* The candidate is itself a row of the table, in an hour group every IQR of
\* which is positive, and got a full result.
EventoEsFila ==
    /\ pc = "evaluado"
    /\ EsCompleto(resultado)
    /\ TodasEnteras(evento)
    /\ FilaDeEvento(evento.hora, evento.consumo_kwh, evento.agua_litros, evento.co2_kg)
           \in DOMAIN df_global
    /\ ~IqrCero(df_global, evento.hora)

FilaDelEvento ==
    FilaDeEvento(evento.hora, evento.consumo_kwh, evento.agua_litros, evento.co2_kg)

Excesos(df, ev) ==
    <<DesviacionMayorQue3(df, ev, "consumo_kwh"),
      DesviacionMayorQue3(df, ev, "agua_litros"),
      DesviacionMayorQue3(df, ev, "co2_kg")>>

\* The explanation the three deviations call for.
ExplicacionDe(ex) ==
    LET lista == (IF ex[1] THEN <<"consumo energetico inusualmente alto">> ELSE << >>)
                 \o (IF ex[2] THEN <<"consumo de agua fuera de lo normal">> ELSE << >>)
                 \o (IF ex[3] THEN <<"emisiones de CO2 elevadas">> ELSE << >>)
    IN  IF lista = << >> THEN <<"comportamiento combinado atipico">> ELSE lista

\* C26: explicacion depends on the three deviations only, not on the
\* percentile or the tier: a full result of any tier, 'Normal' included, lists
\* the per-signal causes of the deviations above 3, or the combined cause when
\* none is above 3; two calls on the same table whose deviations exceed 3 on
\* the same signals return the same explicacion whatever their tiers.
C26_ExplicacionSinNivel ==
    /\ (pc = "evaluado" /\ EsCompleto(resultado)) =>
          resultado.valor.explicacion = ExplicacionDe(Excesos(df_global, evento))
    /\ (DosCompletas /\ Excesos(df_global, previo.evento) = Excesos(df_global, evento)) =>
          previo.resultado.valor.explicacion = resultado.valor.explicacion

\* A 'Normal' result with a per-signal cause after a 'Critica' result with the
\* same explicacion, and a 'Normal' result with the combined cause.
C26_Testigo ==
    /\ DosCompletas
    /\ resultado.valor.nivel = "Normal"
    /\ previo.resultado.valor.nivel = "Critica"
    /\ resultado.valor.explicacion = <<"consumo energetico inusualmente alto">>
    /\ previo.resultado.valor.explicacion = resultado.valor.explicacion

C26_TestigoCombinada ==
    /\ pc = "evaluado" /\ EsCompleto(resultado)
    /\ resultado.valor.nivel = "Normal"
    /\ resultado.valor.explicacion = <<"comportamiento combinado atipico">>

\* z >= m / n for naturals m, n with 4 * m < EpsInv:
\* n * a * EpsInv >= m * (q * EpsInv + 4) iff n * a - m * q >= 1.
ZMayorIgualQue(z, m, n) == n * z.a - m * z.q >= 1

\* z, rounded to two decimals, is c / 100.
ZRedondeaA(z, c) ==
    ZMayorIgualQue(z, 2 * c - 1, 200) /\ ~ZMayorIgualQue(z, 2 * c + 1, 200)

\* x >= m / n for a weighted score x, which is
\* EpsInv * numerator / (100 * denominator).
ScoreMayorIgualQue(x, m, n) ==
    GrandeSigno(GrandeMenos(
        GrandePor(GrandeDe(n), GrandePor(<<0, 0, 1>>, GrandeNumerador(x.c, x.q))),
        GrandePor(GrandeDe(100 * m), GrandeDenominador(x.q)))) >= 0

ScoreRedondeaA(x, c) ==
    ScoreMayorIgualQue(x, 2 * c - 1, 200) /\ ~ScoreMayorIgualQue(x, 2 * c + 1, 200)

\* The context of the example: 60 readings at hour 12 with the medians and
\* IQRs it states.
ContextoDelEjemplo(df) ==
    LET ctx == FiltrarHora(df, HoraContexto)
    IN  /\ Filas(ctx) = 60
        /\ Mediana4(ctx, "consumo_kwh") = 4 * 5000 /\ Iqr4(ctx, "consumo_kwh") = 4 * 500
        /\ Mediana4(ctx, "agua_litros") = 4 * 100000 /\ Iqr4(ctx, "agua_litros") = 4 * 20000
        /\ Mediana4(ctx, "co2_kg") = 4 * 900 /\ Iqr4(ctx, "co2_kg") = 4 * 100

EjemploEvaluado ==
    /\ pc = "evaluado"
    /\ evento = evento_usuario
    /\ ContextoDelEjemplo(df_global)

\* Deviations 4.4, 4.0 and 7.0 and raw score 4.91 (to two decimals: the
\* 1e-6 guard keeps each a hair below), and the three per-signal causes.
EjemploPuntuado ==
    LET ctx == FiltrarHora(df_global, HoraContexto)
    IN  /\ EsCompleto(resultado)
        /\ ZRedondeaA(DesviacionDe(ctx, "consumo_kwh", 7200), 440)
        /\ ZRedondeaA(DesviacionDe(ctx, "agua_litros", 180000), 400)
        /\ ZRedondeaA(DesviacionDe(ctx, "co2_kg", 1600), 700)
        /\ ScoreRedondeaA(RawDeResultado(resultado), 491)
        /\ resultado.valor.explicacion =
              <<"consumo energetico inusualmente alto",
                "consumo de agua fuera de lo normal",
                "emisiones de CO2 elevadas">>

\* Historical readings of the hour whose raw score is not below the
\* candidate's.
NoMenores(df, ev) == FilasDeHora(df, ev.hora) - FilasMenores(df, ev)

\* C21 as stated: for any context of 60 readings at hour 12 with medians
\* 5000 / 100000 / 900 and IQRs 500 / 20000 / 100, the candidate
\* {12, 7200, 180000, 1600} gets deviations 4.4, 4.0, 7.0, raw score 4.91,
\* a percentile >= 97, tier Critica and all three per-signal causes.
C21_EjemploTalCual ==
    EjemploEvaluado =>
        /\ EjemploPuntuado
        /\ resultado.valor.percentil >= 9700
        /\ resultado.valor.nivel = "Critica"

\* C21 amended: the deviations, the raw score and the three causes are as
\* stated for every such context; the percentile is >= 97 and the tier
\* Critica when at most one of the 60 historical raw scores is not below the
\* candidate's.
C21_EjemploSinColaPesada ==
    EjemploEvaluado =>
        /\ EjemploPuntuado
        /\ NoMenores(df_global, evento) <= 1 =>
              /\ resultado.valor.percentil >= 9700
              /\ resultado.valor.nivel = "Critica"

\* The example at the top of its context, and a context with one outlier.
C21_Testigo ==
    /\ EjemploEvaluado
    /\ EjemploPuntuado
    /\ NoMenores(df_global, evento) = 1
    /\ resultado.valor.percentil = 9833
    /\ resultado.valor.nivel = "Critica"

\* A context with the stated medians and IQRs in which the example is only
\* 'Alerta'.
C21_TestigoAlerta ==
    /\ EjemploEvaluado
    /\ EjemploPuntuado
    /\ NoMenores(df_global, evento) = 2
    /\ resultado.valor.percentil = 9667
    /\ resultado.valor.nivel = "Alerta"

\* A call of the service has returned.
Hecho == pc = "hecho"

\* The stages the call ran, in order.
EtapasDe(tr) == SelectSeq(tr, LAMBDA e : e.ev = "predict")

\* Every feature of the stage named nombre was given the value v.
Recibe(etapa, nombre, v) ==
    \A i \in DOMAIN etapa.features : etapa.features[i] = nombre => etapa.X[i] = v

C23_TestigoSinModelo ==
    /\ Hecho
    /\ ~Verdadero(modelo_consumo)
    /\ LET e == EtapasDe(traza)
       IN  /\ Len(e) = 3
           /\ e[2].llamado
           /\ \E i \in DOMAIN e[2].features :
                 e[2].features[i] = "pred_consumo_kwh" /\ e[2].X[i] = Ent(0)


\* The last stage the call ran raised.
EtapaLanzo == EtapasDe(traza)[Len(EtapasDe(traza))].pred.t = "exc"

\* The three predictions a call that raised nowhere reports: each stage's
\* output rounded to hundredths, 0.0 for a stage without a model.
Predicciones ==
    LET e == EtapasDe(traza)
    IN  [energia_kwh |-> Redondear2(e[1].pred.valor),
         agua_litros |-> Redondear2(e[2].pred.valor),
         co2_kg |-> Redondear2(e[3].pred.valor)]

\* C27: predecir_completo never propagates a prediction failure: whatever
\* models and feature configuration are loaded and whichever stage raises,
\* it returns a dict with the keys energia_kwh, agua_litros, co2_kg, sede and
\* sector, with zeros when the call failed; so responder_pregunta never
\* reports its fallback values 1500 / 30000 / 450 (what it reports is what
\* predecir_completo returned: 0.0 three times for a failed call, else the
\* rounded outputs), and a model that is not available is reported as a
\* prediction of 0.
C27_NuncaPropaga ==
    Hecho =>
        /\ retorno.t = "ok"
        /\ retorno.valor.t = "dict"
        /\ LET d == retorno.valor.d
               e == EtapasDe(traza)
               p == IF peticion.fn = "predecir_completo"
                    THEN [k \in {"energia_kwh", "agua_litros", "co2_kg"} |-> d[k]]
                    ELSE d.prediccion
           IN  /\ peticion.fn = "predecir_completo" =>
                    /\ DOMAIN d = {"energia_kwh", "agua_litros", "co2_kg", "sede", "sector"}
                    /\ d.sector = peticion.sector
                    /\ d.sede = SedesGet(peticion.sede_id)
                    /\ EtapaLanzo => \A k \in DOMAIN p : p[k] = Ent(0)
               /\ peticion.fn = "responder_pregunta" =>
                    /\ DOMAIN p = {"energia_kwh", "agua_litros", "co2_kg"}
                    /\ EtapaLanzo => \A k \in DOMAIN p : p[k] = Flo(0)
               /\ ~EtapaLanzo =>
                    /\ \A k \in DOMAIN p : p[k] = Predicciones[k]
                    /\ ~Verdadero(modelo_consumo) => p.energia_kwh = Flo(0)
                    /\ ~Verdadero(modelo_agua) => p.agua_litros = Flo(0)
                    /\ ~Verdadero(modelo_co2) => p.co2_kg = Flo(0)

\* The water model raises in a call of predecir_completo for a sede that is
\* not in SEDES: the dict of zeros comes back.
C27_Testigo ==
    /\ Hecho
    /\ peticion.fn = "predecir_completo"
    /\ peticion.sede_id = Ent(9)
    /\ Len(EtapasDe(traza)) = 2
    /\ EtapaLanzo
    /\ retorno.t = "ok"
    /\ retorno.valor.d.energia_kwh = Ent(0)
    /\ retorno.valor.d.co2_kg = Ent(0)

\* A stage raises while a canned question is answered: the answer reports
\* 0.0, not the fallback values.
C27_TestigoPregunta ==
    /\ Hecho
    /\ peticion.fn = "responder_pregunta"
    /\ EtapaLanzo
    /\ retorno.valor.d.prediccion =
         [energia_kwh |-> Flo(0), agua_litros |-> Flo(0), co2_kg |-> Flo(0)]

\* No model was loaded: the answer to a canned question reports 0.0.
C27_TestigoSinModelos ==
    /\ Hecho
    /\ peticion.fn = "responder_pregunta"
    /\ modelo_consumo = None /\ config_features = None
    /\ ~EtapaLanzo
    /\ retorno.valor.d.prediccion =
         [energia_kwh |-> Flo(0), agua_litros |-> Flo(0), co2_kg |-> Flo(0)]


\* A canned question has been answered.
Respondida == Hecho /\ peticion.fn = "responder_pregunta"

\* The sector, sede and hour handed to predecir_completo, which are also the
\* ones the answer reports.
Enrutada(sector, sede, hora) ==
    /\ traza[1].ev = "predecir_completo"
    /\ traza[1].sector = Cad(sector)
    /\ traza[1].sede_id = Ent(sede)
    /\ traza[1].hora = Ent(hora)
    /\ retorno.valor.d.sector = sector
    /\ retorno.valor.d.sede_id = sede
    /\ retorno.valor.d.hora = hora

\* A question that names no sector, no sede and no hour.
PreguntaGeneral ==
    <<"c", "o", "n", "s", "u", "m", "o", " ", "g", "e", "n", "e", "r", "a", "l">>

\* C24: for each of the five PREGUNTAS_PREDEFINIDAS, responder_pregunta
\* extracts the sector, sede and hour the question names (Laboratorios / 3 /
\* 17, Comedores / 2 / 12, Oficinas / 1 / 10, Auditorios / 4 / 19, Salones /
\* 2 / 15) and passes exactly those to predecir_completo; a question naming
\* no sector, sede or hour is routed as 'General', sede 2, hour 9.
C24_Enrutado ==
    Respondida =>
        /\ peticion.pregunta = PREGUNTAS_PREDEFINIDAS[1] => Enrutada("Laboratorios", 3, 17)
        /\ peticion.pregunta = PREGUNTAS_PREDEFINIDAS[2] => Enrutada("Comedores", 2, 12)
        /\ peticion.pregunta = PREGUNTAS_PREDEFINIDAS[3] => Enrutada("Oficinas", 1, 10)
        /\ peticion.pregunta = PREGUNTAS_PREDEFINIDAS[4] => Enrutada("Auditorios", 4, 19)
        /\ peticion.pregunta = PREGUNTAS_PREDEFINIDAS[5] => Enrutada("Salones", 2, 15)
        /\ peticion.pregunta = PreguntaGeneral => Enrutada("General", 2, 9)

\* The first canned question is answered: laboratory, sede 3, 5 pm.
C24_Testigo ==
    /\ Respondida
    /\ peticion.pregunta = PREGUNTAS_PREDEFINIDAS[1]
    /\ Len(traza) = 4
    /\ traza[1].sector = Cad("Laboratorios")
    /\ traza[1].sede_id = Ent(3)
    /\ traza[1].hora = Ent(17)
    /\ \E i \in DOMAIN traza[2].features :
          traza[2].features[i] = "hora" /\ traza[2].X[i] = Ent(17)

\* The question without keywords is answered with the defaults.
C24_TestigoGeneral ==
    /\ Respondida
    /\ peticion.pregunta = PreguntaGeneral
    /\ traza[1].sector = Cad("General")
    /\ traza[1].sede_id = Ent(2)
    /\ traza[1].hora = Ent(9)


\* The questions of the model that contain a word, after lower-casing.
Con(palabra) == {p \in Preguntas : Incluye(palabra, Lower(p))}
ConManana == Con(<<"m", "a", "n~", "a", "n", "a">>)
ConHoy == Con(<<"h", "o", "y">>)
ConMartes == Con(<<"m", "a", "r", "t", "e", "s">>)
ConViernes == Con(<<"v", "i", "e", "r", "n", "e", "s">>)

\* The date extraer_fecha_hora returned for the question answered, and the
\* date it was asked on.
FechaDevuelta == retorno.valor.d.fecha.fecha
FechaActual == peticion.ahora

\* The date returned is 1 to 7 days after the current one and falls on the
\* weekday dia.
ProximoDia(dia) ==
    /\ FechaDevuelta - FechaActual \in 1..7
    /\ Weekday(FechaDevuelta) = dia

\* 'manana' takes precedence over 'hoy', which takes precedence over the
\* weekday names.
Precedencia ==
    /\ peticion.pregunta \in ConManana => FechaDevuelta = FechaActual + 1
    /\ peticion.pregunta \in ConHoy \ ConManana => FechaDevuelta = FechaActual

\* C28 as stated: for a question containing 'martes' (resp. 'viernes') and
\* neither 'manana' nor 'hoy', the date returned is between 1 and 7 days
\* after the current date, never the current date, and its weekday is
\* Tuesday (resp. Friday), for every current weekday 0..6; 'manana' takes
\* precedence over 'hoy', which takes precedence over the weekday names.
C28_TalCual ==
    Respondida =>
        /\ peticion.pregunta \in ConMartes \ (ConManana \cup ConHoy) => ProximoDia(1)
        /\ peticion.pregunta \in ConViernes \ (ConManana \cup ConHoy) => ProximoDia(4)
        /\ Precedencia

\* C28 amended: the same, the Friday case being for a question containing
\* 'viernes' and none of 'manana', 'hoy' and 'martes'.
C28_DiaDeLaSemana ==
    Respondida =>
        /\ peticion.pregunta \in ConMartes \ (ConManana \cup ConHoy) => ProximoDia(1)
        /\ peticion.pregunta \in ConViernes \ (ConManana \cup ConHoy \cup ConMartes)
              => ProximoDia(4)
        /\ Precedencia

\* The second canned question asked on a Tuesday: the Tuesday a week later.
C28_Testigo ==
    /\ Respondida
    /\ peticion.pregunta = PREGUNTAS_PREDEFINIDAS[2]
    /\ Weekday(FechaActual) = 1
    /\ FechaDevuelta = FechaActual + 7

\* The fifth canned question asked on a Sunday: the Friday five days later.
C28_TestigoViernes ==
    /\ Respondida
    /\ peticion.pregunta = PREGUNTAS_PREDEFINIDAS[5]
    /\ Weekday(FechaActual) = 6
    /\ FechaDevuelta = FechaActual + 5
    /\ retorno.valor.d.dia_semana = 4

\* A question with both 'hoy' and 'manana' and a weekday name: tomorrow.
C28_TestigoPrecedencia ==
    /\ Respondida
    /\ peticion.pregunta \in ConManana \cap ConHoy \cap ConMartes
    /\ FechaDevuelta = FechaActual + 1


\* POST /api/responder-pregunta has been answered.
EnResponderPregunta == Hecho /\ peticion.fn = "POST /api/responder-pregunta"

\* The response carries an error field.
ConError == retorno.json.t = "dict" /\ "error" \in DOMAIN retorno.json.d

\* No prediction was called.
SinPrediccion == \A i \in DOMAIN traza : traza[i].ev # "predecir_completo"

\* The ids obtener_preguntas returns.
Ids == {Ent(obtener_preguntas[i].id) : i \in DOMAIN obtener_preguntas}

\* C29: POST /api/responder-pregunta resolves the question before
\* predicting: a body whose pregunta_id is one of the ids 1..5 of
\* obtener_preguntas is answered with that question's text, whether or not
\* the body also has a 'pregunta' field; any other pregunta_id gives 404
\* without calling the prediction; a body with neither field gives 400; an
\* exception, a missing JSON body included, gives 500 with an error field.
C29_ResolverPregunta ==
    EnResponderPregunta =>
        LET c == peticion.cuerpo
        IN  /\ Ids = {Ent(i) : i \in 1..5}
            /\ c = Nada => retorno.status = 500 /\ ConError /\ SinPrediccion
            /\ c # Nada =>
                LET conId == "pregunta_id" \in DOMAIN c.d
                    conTexto == "pregunta" \in DOMAIN c.d
                IN  /\ (conId /\ c.d.pregunta_id \in Ids) =>
                          /\ retorno.status = 200
                          /\ retorno.json.d.pregunta =
                               PREGUNTAS_PREDEFINIDAS[c.d.pregunta_id.v]
                          /\ traza[1] = [ev |-> "responder_pregunta",
                                         pregunta |->
                                           Texto(PREGUNTAS_PREDEFINIDAS[c.d.pregunta_id.v])]
                          /\ traza[2].ev = "predecir_completo"
                    /\ (conId /\ c.d.pregunta_id \notin Ids) =>
                          retorno.status = 404 /\ ConError /\ traza = << >>
                    /\ (~conId /\ ~conTexto) =>
                          retorno.status = 400 /\ ConError /\ traza = << >>
                    /\ (~conId /\ conTexto /\ c.d.pregunta.t # "texto") =>
                          retorno.status = 500 /\ ConError /\ SinPrediccion
                    /\ (~conId /\ conTexto /\ c.d.pregunta.t = "texto") =>
                          /\ retorno.status = 200
                          /\ retorno.json.d.pregunta = c.d.pregunta.c

\* A body with pregunta_id 5 and the text of the first question: the fifth
\* question is answered.
C29_Testigo ==
    /\ EnResponderPregunta
    /\ peticion.cuerpo =
         Dic([pregunta_id |-> Ent(5), pregunta |-> Texto(PREGUNTAS_PREDEFINIDAS[1])])
    /\ retorno.status = 200
    /\ retorno.json.d.pregunta = PREGUNTAS_PREDEFINIDAS[5]
    /\ retorno.json.d.sector = "Salones"
    /\ traza[2].sector = Cad("Salones")

\* A body with pregunta_id 7 and a question text: 404.
C29_TestigoNoEncontrada ==
    /\ EnResponderPregunta
    /\ peticion.cuerpo =
         Dic([pregunta_id |-> Ent(7), pregunta |-> Texto(PREGUNTAS_PREDEFINIDAS[1])])
    /\ retorno.status = 404
    /\ traza = << >>

\* The empty JSON object: 400.
C29_TestigoSinCampos ==
    /\ EnResponderPregunta
    /\ peticion.cuerpo = Dic(<< >>)
    /\ retorno.status = 400

\* No JSON body: 500.
C29_TestigoSinCuerpo ==
    /\ EnResponderPregunta
    /\ peticion.cuerpo = Nada
    /\ retorno = Error500("TypeError")


\* One of the three prediction endpoints has answered a JSON object.
EnPrediccion ==
    /\ Hecho
    /\ peticion.fn \in {"POST /api/predecir", "POST /api/predecir-con-shap",
                        "POST /api/generar-shap"}
    /\ peticion.cuerpo # Nada

\* The required parameters in the order the claim lists them.
OrdenParametros ==
    <<"sede_id", "sector", "hora", "dia_semana", "temperatura", "ocupacion">>

\* The parameters the body lacks.
Ausentes == {i \in 1..6 : OrdenParametros[i] \notin DOMAIN peticion.cuerpo.d}

\* The response is 400 and names the parameter param.
Nombra400(param) ==
    /\ retorno.status = 400
    /\ ConError
    /\ retorno.json.d.error =
         [plantilla |-> "Parametro '{param}' requerido", param |-> param]

\* C30: POST /api/predecir, /api/predecir-con-shap and /api/generar-shap
\* validate before computing: when one of sede_id, sector, hora, dia_semana,
\* temperatura, ocupacion is absent from the JSON object the response is 400
\* naming the first missing one in that order, and neither predecir_completo
\* nor generar_shap_graficos is called; /api/predecir-con-shap computes the
\* prediction, then the SHAP charts, and attaches the charts to that
\* prediction's result.
C30_ValidaAntes ==
    EnPrediccion =>
        /\ \A i \in Ausentes :
              (\A j \in Ausentes : i <= j) =>
                  Nombra400(OrdenParametros[i]) /\ traza = << >>
        /\ (Ausentes = {} /\ peticion.fn = "POST /api/predecir-con-shap") =>
              LET n == Len(traza)
                  d == retorno.json.d
              IN  /\ n >= 3
                  /\ traza[1].ev = "predecir_completo"
                  /\ \A i \in 2..(n - 1) : traza[i].ev = "predict"
                  /\ traza[n].ev = "generar_shap_graficos"
                  /\ retorno.status = 200
                  /\ DOMAIN d = {"energia_kwh", "agua_litros", "co2_kg", "sede",
                                 "sector", "shap_graficos"}
                  /\ d.shap_graficos = traza[n].devuelve
                  /\ \A k \in {"energia_kwh", "agua_litros", "co2_kg"} :
                        d[k] = IF EtapaLanzo THEN Ent(0) ELSE Predicciones[k]
                  /\ d.sector = traza[1].sector
                  /\ d.sede = SedesGet(traza[1].sede_id)

\* A body without sector and temperatura sent to /api/predecir-con-shap:
\* 400 naming sector, and nothing was computed.
C30_Testigo ==
    /\ EnPrediccion
    /\ peticion.fn = "POST /api/predecir-con-shap"
    /\ Ausentes = {2, 5}
    /\ Nombra400("sector")
    /\ traza = << >>

\* A complete body sent to /api/predecir-con-shap: the charts of the three
\* models are attached to the prediction.
C30_TestigoConShap ==
    /\ EnPrediccion
    /\ peticion.fn = "POST /api/predecir-con-shap"
    /\ Ausentes = {}
    /\ Len(traza) = 5
    /\ retorno.status = 200
    /\ retorno.json.d.energia_kwh = Flo(123456)
    /\ DOMAIN retorno.json.d.shap_graficos.d =
         {"consumo_energia", "consumo_agua", "emisiones_co2"}

\* A body without ocupacion sent to /api/generar-shap: 400.
C30_TestigoGenerarShap ==
    /\ EnPrediccion
    /\ peticion.fn = "POST /api/generar-shap"
    /\ Ausentes = {6}
    /\ Nombra400("ocupacion")
    /\ traza = << >>

=============================================================================
